---- MODULE Spec2Model ----
(***************************************************************************)
(* A model of the trampoline SDK's in-memory test ledger (MockChain) and   *)
(* of its transaction Generator / middleware pipeline.                     *)
(*                                                                         *)
(* Option<T> is a sequence of length 0 (None) or 1 (Some).  A HashMap is a *)
(* function whose DOMAIN is the set of its keys.  A Byte32 is a record     *)
(* [ns, id]: blake2b is modelled as an injection of the hashed universe    *)
(* into a namespace of its own, thread_rng as a source of fresh values.    *)
(***************************************************************************)
EXTENDS Integers, Sequences, FiniteSets, TLC

VARIABLES chain, rng, ops, last, middleware, query_queue, query_register, gen, calls,
          contract, scr, provider

vars == <<chain, rng, ops, last, middleware, query_queue, query_register, gen, calls,
         contract, scr, provider>>

(***************************************************************************)
(* Bounds of the model.                                                    *)
(***************************************************************************)
\* number of mutating calls made on one MockChain in one behaviour
MaxOps == 3
\* longest middleware pipeline given to a Generator
MaxPipe == 2
\* most output rules, and most input rules, added to one Contract
MaxRules == 2
\* number of generation passes run on one Generator
MaxPass == 2

(***************************************************************************)
(* Option, HashMap and sequence helpers.                                   *)
(***************************************************************************)
None == <<>>

Some(x) == <<x>>

IsSome(o) == Len(o) = 1

Unwrap(o) == o[1]

HasKey(m, k) == k \in DOMAIN m

\* HashMap::get
Get(m, k) == IF k \in DOMAIN m THEN Some(m[k]) ELSE None

\* HashMap::insert: adds the key or replaces the value stored under it
Insert(m, k, v) == [x \in (DOMAIN m) \cup {k} |-> IF x = k THEN v ELSE m[x]]

EmptyMap == [x \in {} |-> 0]

IndexIn(u, x) == CHOOSE i \in 1..Len(u) : u[i] = x

Range(s) == {s[i] : i \in 1..Len(s)}

RECURSIVE Flatten(_)
Flatten(ss) == IF ss = <<>> THEN <<>> ELSE Head(ss) \o Flatten(Tail(ss))

(***************************************************************************)
(* Bytes, hashes, scripts, cell outputs.                                   *)
(***************************************************************************)
\* ckb_always_success_script::ALWAYS_SUCCESS, the blob MockChain::default deploys
ALWAYS_SUCCESS == <<7, 7>>

D1 == <<1>>

D2 == <<2, 2, 2>>

\* the system scripts of BUNDLED_CELL that GenesisScripts::default() reads
SECP256K1_DATA == <<11>>

SECP256K1_BLAKE160_SIGHASH_ALL == <<12>>

SECP256K1_BLAKE160_MULTISIG_ALL == <<13>>

DAO == <<14>>

\* every byte string the model hashes
DataUniverse ==
    <<ALWAYS_SUCCESS, D1, D2, <<>>, SECP256K1_DATA, SECP256K1_BLAKE160_SIGHASH_ALL,
      SECP256K1_BLAKE160_MULTISIG_ALL, DAO>>

\* the byte strings callers deploy or store
Datas == {D1, D2}

ZeroHash == [ns |-> "zero", id |-> 0]

\* CellOutput::calc_data_hash: blake2b of the data
DataHash(d) == [ns |-> "data", id |-> IndexIn(DataUniverse, d)]

\* random_hash: 32 bytes of thread_rng; the n-th draw differs from all others
RandomHash(n) == [ns |-> "rand", id |-> n]

HashTypes == <<"Data", "Type", "Data1">>

ArgsUniverse == <<<<>>, <<9>>>>

CodeHashUniverse ==
    <<ZeroHash, DataHash(ALWAYS_SUCCESS), DataHash(D1), DataHash(D2),
      DataHash(SECP256K1_DATA), DataHash(SECP256K1_BLAKE160_SIGHASH_ALL),
      DataHash(SECP256K1_BLAKE160_MULTISIG_ALL), DataHash(DAO)>>

MkScript(code_hash, hash_type, args) ==
    [code_hash |-> code_hash, hash_type |-> hash_type, args |-> args]

\* packed::Script::default(): zero code hash, hash type byte 0 (Data), no args
DefaultScript == MkScript(ZeroHash, "Data", <<>>)

\* Script::calc_script_hash: blake2b of the serialised (code_hash, hash_type, args)
ScriptHash(s) ==
    [ns |-> "script",
     id |-> ((IndexIn(CodeHashUniverse, s.code_hash) * Len(HashTypes)
              + IndexIn(HashTypes, s.hash_type)) * Len(ArgsUniverse))
            + IndexIn(ArgsUniverse, s.args)]

\* Capacity::bytes(n): n bytes expressed in shannons
CapacityBytes(n) == n * 100000000

MkOutput(capacity, lock, type_) ==
    [capacity |-> capacity, lock |-> lock, type_ |-> type_]

\* CellOutput::calc_lock_hash
CalcLockHash(cell) == ScriptHash(cell.lock)

OutPoint(tx_hash, index) == [tx_hash |-> tx_hash, index |-> index]

\* a lock and a type script bound to the code deployed as D1
LockA == MkScript(DataHash(D1), "Data1", <<>>)

TypeA == MkScript(DataHash(D1), "Data1", <<9>>)

\* the output templates callers pass to create_cell / deploy_cell_output
Templates ==
    {MkOutput(100, DefaultScript, None),
     MkOutput(100, LockA, None),
     MkOutput(200, DefaultScript, Some(TypeA))}

\* the reference made from the n-th random hash (random_out_point, OutPoint::new(h, 0))
R(n) == OutPoint(RandomHash(n), 0)

\* a reference chosen by the caller of create_cell_with_outpoint
ExtOut == OutPoint([ns |-> "ext", id |-> 1], 0)

(***************************************************************************)
(* Transactions: inputs are the previous_output of each CellInput.         *)
(***************************************************************************)
MkTx(inputs, cell_deps, outputs, outputs_data) ==
    [inputs |-> inputs, cell_deps |-> cell_deps,
     outputs |-> outputs, outputs_data |-> outputs_data]

\* CellDep::new_builder().out_point(o).dep_type(DepType::Code)
CodeDep(o) == [out_point |-> o, dep_type |-> "Code"]

\* TransactionBuilder::default().build()
EmptyTx == MkTx(<<>>, <<>>, <<>>, <<>>)

\* reference-only transactions handed to build_resolved_tx: <<inputs, cell deps>>
ResolveRefs ==
    {<<<<>>, <<>>>>,
     <<<<R(1)>>, <<>>>>,
     <<<<R(1), R(2)>>, <<R(1)>>>>,
     <<<<R(2), R(1)>>, <<R(2)>>>>,
     <<<<ExtOut, R(2)>>, <<>>>>,
     <<<<R(2), ExtOut>>, <<>>>>,
     <<<<R(1)>>, <<ExtOut>>>>,
     <<<<R(2)>>, <<ExtOut>>>>,
     <<<<R(1)>>, <<R(2), ExtOut>>>>}

ResolveTxs ==
    {MkTx(p[1], [i \in 1..Len(p[2]) |-> CodeDep(p[2][i])], <<>>, <<>>) : p \in ResolveRefs}

\* the cell-dep lists of the transactions handed to complete_tx
DepLists ==
    {<<>>,
     <<CodeDep(R(1))>>,
     <<CodeDep(R(1)), CodeDep(R(2))>>,
     <<CodeDep(R(1)), CodeDep(R(1)), CodeDep(R(2))>>,
     <<CodeDep(R(1)), CodeDep(R(2)), CodeDep(R(1))>>,
     <<CodeDep(R(2)), CodeDep(R(1)), CodeDep(R(2))>>,
     <<CodeDep(R(1)), [out_point |-> R(1), dep_type |-> "DepGroup"]>>}

\* transactions handed to complete_tx: one input, one output with a type script
CompleteTxs ==
    {MkTx(<<R(2)>>, deps, <<MkOutput(200, DefaultScript, Some(TypeA))>>, <<D2>>) :
        deps \in DepLists}

TxOut1 == MkTx(<<R(1)>>, <<>>, <<MkOutput(100, LockA, None)>>, <<D1>>)

TxOut2 ==
    MkTx(<<>>, <<>>,
         <<MkOutput(100, DefaultScript, None), MkOutput(200, LockA, Some(TypeA))>>,
         <<D2, D1>>)

\* one output but no output data: rejected by OutputsDataVerifier
TxNoData == MkTx(<<R(1)>>, <<>>, <<MkOutput(100, LockA, None)>>, <<>>)

\* spends a reference the chain never stores
TxMissing == MkTx(<<ExtOut, R(1)>>, <<>>, <<MkOutput(100, LockA, None)>>, <<D2>>)

\* transactions handed to receive_tx
ReceiveTxs == {TxOut1, TxOut2, TxNoData, TxMissing}

TxUniverse == <<TxOut1, TxOut2, TxNoData, TxMissing>>

\* TransactionView::hash: blake2b of the raw transaction
TxHash(tx) == [ns |-> "tx", id |-> IndexIn(TxUniverse, tx)]

(***************************************************************************)
(* Headers.                                                                *)
(***************************************************************************)
HeaderUniverse == {[number |-> 1, epoch |-> 0, hash |-> [ns |-> "hdr", id |-> 1]]}

HeaderHashes == {h.hash : h \in HeaderUniverse} \cup {[ns |-> "hdr", id |-> 2]}

(***************************************************************************)
(* Outcomes of a call: a returned value or a panic.                        *)
(***************************************************************************)
Ok(v) == [kind |-> "ok", val |-> v]

Panic(msg) == [kind |-> "panic", val |-> msg]

Err(e) == [kind |-> "err", val |-> e]

(***************************************************************************)
(* types::script::Script: a script with its hash stored next to it.        *)
(***************************************************************************)
\* the hash-type byte of a packed script (ScriptHashType as u8)
HashTypeByte(t) == CASE t = "Data" -> 0 [] t = "Type" -> 1 [] t = "Data1" -> 2

\* packed::Script built from (code_hash, hash_type, args)
PackedScript(code_hash, hash_type, args) ==
    [code_hash |-> code_hash, hash_type |-> HashTypeByte(hash_type), args |-> args]

\* packed::Script::calc_script_hash
PackedScriptHash(p) ==
    ScriptHash(MkScript(p.code_hash, HashTypes[p.hash_type + 1], p.args))

\* From<Script> for PackedScript: the stored script_hash is dropped
Script_into_packed(s) == PackedScript(s.code_hash, s.hash_type, s.args)

Script_calc_script_hash(s) == PackedScriptHash(Script_into_packed(s))

\* Default for Script: the hash is computed from the default fields
Script_default ==
    LET ret == [args |-> <<>>, code_hash |-> ZeroHash, hash_type |-> "Data",
                script_hash |-> ZeroHash]
    IN  [ret EXCEPT !.script_hash = Script_calc_script_hash(ret)]

\* Script::set_args: only args is assigned
Script_set_args(s, args) == [s EXCEPT !.args = args]

\* Script::validate
Script_validate(s) ==
    IF Script_calc_script_hash(s) # s.script_hash
    THEN Err([MismatchedScriptHash |-> <<Script_calc_script_hash(s), s.script_hash>>])
    ELSE Ok(Script_calc_script_hash(s))

\* From<JsonScript> for Script; j is (code_hash, hash_type, args)
Script_from_json(j) ==
    [args |-> j.args, code_hash |-> j.code_hash, hash_type |-> j.hash_type,
     script_hash |-> PackedScriptHash(PackedScript(j.code_hash, j.hash_type, j.args))]

\* From<PackedScript> for Script: ScriptHashType::try_from(byte).unwrap()
Script_from_packed(p) ==
    IF p.hash_type > 2 THEN Panic("called Result::unwrap() on an Err value")
    ELSE Ok([args |-> p.args, code_hash |-> p.code_hash,
             hash_type |-> HashTypes[p.hash_type + 1],
             script_hash |-> PackedScriptHash(p)])

(***************************************************************************)
(* MockChain.                                                              *)
(***************************************************************************)
\* the fields of MockChain before Default::default deploys the default lock
EmptyChain ==
    [cells |-> EmptyMap, outpoint_txs |-> EmptyMap, headers |-> EmptyMap,
     epoches |-> EmptyMap,
     cells_by_data_hash |-> EmptyMap, cells_by_lock_hash |-> EmptyMap,
     cells_by_type_hash |-> EmptyMap, genesis_info |-> None, default_lock |-> None,
     debug |-> FALSE]

get_cell_by_data_hash(c, data_hash) == Get(c.cells_by_data_hash, data_hash)

get_cells_by_lock_hash(c, hash) == Get(c.cells_by_lock_hash, hash)

get_cells_by_type_hash(c, hash) == Get(c.cells_by_type_hash, hash)

get_cell(c, out_point) == Get(c.cells, out_point)

\* the push-or-create of one Vec<OutPoint> index entry
PushIndex(index, looked_up, hash, outp) ==
    IF IsSome(looked_up)
    THEN Insert(index, hash, Append(Unwrap(looked_up), outp))
    ELSE Insert(index, hash, <<outp>>)

create_cell_with_outpoint(c, outp, cell, data) ==
    LET data_hash == DataHash(data)
        c1 == [c EXCEPT !.cells_by_data_hash = Insert(@, data_hash, outp),
                        !.cells = Insert(@, outp, <<cell, data>>)]
        c2 == [c1 EXCEPT !.cells_by_lock_hash =
                   PushIndex(@, get_cells_by_lock_hash(c1, CalcLockHash(cell)),
                             CalcLockHash(cell), outp)]
    IN  IF IsSome(cell.type_)
        THEN LET hash == ScriptHash(Unwrap(cell.type_))
             IN  [c2 EXCEPT !.cells_by_type_hash =
                      PushIndex(@, get_cells_by_type_hash(c2, hash), hash, outp)]
        ELSE c2

\* the cell deploy_cell_with_data builds around the data
DeployedCell(data) ==
    MkOutput(CapacityBytes(Len(data)), DefaultScript,
             Some(MkScript(DataHash(data), "Data", <<>>)))

\* deploy_cell_with_data without the look-up of the data hash
deploy_cell_with_data_always_new(c, n, data) ==
    LET out_point == OutPoint(RandomHash(n + 1), 0)
    IN  [chain |-> [c EXCEPT
                       !.cells = Insert(@, out_point, <<DeployedCell(data), data>>),
                       !.cells_by_data_hash = Insert(@, DataHash(data), out_point)],
         ret |-> out_point, drawn |-> 1]

\* returns [chain, ret, drawn]: drawn counts the random hashes consumed
deploy_cell_with_data(c, n, data) ==
    LET data_hash == DataHash(data) IN
    IF HasKey(c.cells_by_data_hash, data_hash)
    THEN [chain |-> c, ret |-> c.cells_by_data_hash[data_hash], drawn |-> 0]
    ELSE LET out_point == OutPoint(RandomHash(n + 1), 0)
         IN  [chain |-> [c EXCEPT
                            !.cells = Insert(@, out_point, <<DeployedCell(data), data>>),
                            !.cells_by_data_hash = Insert(@, data_hash, out_point)],
              ret |-> out_point, drawn |-> 1]

\* deploy_cell_output storing the given output at the reference already indexed
deploy_cell_output_overwriting(c, n, data, output) ==
    LET data_hash == DataHash(data) IN
    IF HasKey(c.cells_by_data_hash, data_hash)
    THEN [chain |-> create_cell_with_outpoint(c, c.cells_by_data_hash[data_hash],
                                              output, data),
          ret |-> c.cells_by_data_hash[data_hash], drawn |-> 0]
    ELSE LET out_point == OutPoint(RandomHash(n + 1), 0)
         IN  [chain |-> create_cell_with_outpoint(c, out_point, output, data),
              ret |-> out_point, drawn |-> 1]

deploy_cell_output(c, n, data, output) ==
    LET data_hash == DataHash(data) IN
    IF HasKey(c.cells_by_data_hash, data_hash)
    THEN [chain |-> c, ret |-> c.cells_by_data_hash[data_hash], drawn |-> 0]
    ELSE LET out_point == OutPoint(RandomHash(n + 1), 0)
         IN  [chain |-> create_cell_with_outpoint(c, out_point, output, data),
              ret |-> out_point, drawn |-> 1]

\* create_cell addressing the cell by its content, as the deploy functions do
create_cell_content_addressed(c, n, cell, data) ==
    IF HasKey(c.cells_by_data_hash, DataHash(data))
    THEN [chain |-> c, ret |-> c.cells_by_data_hash[DataHash(data)], drawn |-> 0]
    ELSE [chain |-> create_cell_with_outpoint(c, OutPoint(RandomHash(n + 1), 0), cell, data),
          ret |-> OutPoint(RandomHash(n + 1), 0), drawn |-> 1]

create_cell(c, n, cell, data) ==
    LET outpoint == OutPoint(RandomHash(n + 1), 0)
    IN  [chain |-> create_cell_with_outpoint(c, outpoint, cell, data),
         ret |-> outpoint, drawn |-> 1]

\* MockChain::default(): the always-success script deployed as default lock
DefaultChain ==
    LET r == deploy_cell_with_data(EmptyChain, 0, ALWAYS_SUCCESS)
    IN  [r.chain EXCEPT !.default_lock = Some(r.ret)]

\* PartialEq for MockChain: the fields compared left to right with &&, then
\* genesis_info.as_ref().unwrap() on both sides
eq(self, other) ==
    IF ~(/\ self.cells = other.cells
         /\ self.default_lock = other.default_lock
         /\ self.outpoint_txs = other.outpoint_txs
         /\ self.headers = other.headers
         /\ self.epoches = other.epoches
         /\ self.cells_by_data_hash = other.cells_by_data_hash
         /\ self.cells_by_lock_hash = other.cells_by_lock_hash
         /\ self.cells_by_type_hash = other.cells_by_type_hash
         /\ self.debug = other.debug)
    THEN Ok(FALSE)
    ELSE IF ~IsSome(self.genesis_info) \/ ~IsSome(other.genesis_info)
    THEN Panic("called Option::unwrap() on a None value")
    ELSE Ok(Unwrap(self.genesis_info) = Unwrap(other.genesis_info))

insert_header(c, header) == [c EXCEPT !.headers = Insert(@, header.hash, header)]

\* TransactionInfo::new(number, epoch, hash, tx_idx)
TransactionInfo(header, hash, tx_idx) ==
    [block_number |-> header.number, block_epoch |-> header.epoch,
     block_hash |-> hash, index |-> tx_idx]

\* link_cell_with_block that keeps the location recorded first
link_cell_with_block_first_wins(c, outp, hash, tx_idx) ==
    IF HasKey(c.headers, hash)
    THEN Ok(IF HasKey(c.outpoint_txs, outp) THEN c
            ELSE [c EXCEPT !.outpoint_txs =
                      Insert(@, outp, TransactionInfo(c.headers[hash], hash, tx_idx))])
    ELSE Panic("can't find the header")

\* panics ("can't find the header") when the hash is not a stored header
link_cell_with_block(c, outp, hash, tx_idx) ==
    IF HasKey(c.headers, hash)
    THEN Ok([c EXCEPT !.outpoint_txs =
                 Insert(@, outp, TransactionInfo(c.headers[hash], hash, tx_idx))])
    ELSE Panic("can't find the header")

\* CellMetaBuilder::from_cell_output(..).out_point(..)[.transaction_info(..)].build()
CellMetaOf(c, out_point) ==
    [cell_output |-> c.cells[out_point][1],
     mem_cell_data |-> c.cells[out_point][2],
     out_point |-> out_point,
     transaction_info |-> Get(c.outpoint_txs, out_point)]

\* build_resolved_tx collecting the input cells in reverse
build_resolved_tx_reversed(c, tx) ==
    IF \E i \in 1..Len(tx.inputs) : ~HasKey(c.cells, tx.inputs[i])
    THEN Panic("called Option::unwrap() on a None value")
    ELSE IF \E i \in 1..Len(tx.cell_deps) : ~HasKey(c.cells, tx.cell_deps[i].out_point)
    THEN Panic("called Option::unwrap() on a None value")
    ELSE Ok([transaction |-> tx,
             resolved_cell_deps |->
                 [i \in 1..Len(tx.cell_deps) |-> CellMetaOf(c, tx.cell_deps[i].out_point)],
             resolved_inputs |->
                 [i \in 1..Len(tx.inputs) |->
                     CellMetaOf(c, tx.inputs[Len(tx.inputs) + 1 - i])],
             resolved_dep_groups |-> <<>>])

\* the map over inputs, then over cell deps; each unwrap panics on a missing cell
build_resolved_tx(c, tx) ==
    IF \E i \in 1..Len(tx.inputs) : ~HasKey(c.cells, tx.inputs[i])
    THEN Panic("called Option::unwrap() on a None value")
    ELSE IF \E i \in 1..Len(tx.cell_deps) : ~HasKey(c.cells, tx.cell_deps[i].out_point)
    THEN Panic("called Option::unwrap() on a None value")
    ELSE Ok([transaction |-> tx,
             resolved_cell_deps |->
                 [i \in 1..Len(tx.cell_deps) |-> CellMetaOf(c, tx.cell_deps[i].out_point)],
             resolved_inputs |->
                 [i \in 1..Len(tx.inputs) |-> CellMetaOf(c, tx.inputs[i])],
             resolved_dep_groups |-> <<>>])

\* OutputsDataVerifier: as many outputs_data as outputs
verify_tx_consensus(tx) ==
    IF Len(tx.outputs) = Len(tx.outputs_data) THEN Ok(<<>>) ELSE Err("OutputsDataLengthMismatch")

\* verify_tx_by_context: the script verifier is external, its verdict an input
verify_tx(c, tx, verdict) ==
    IF verify_tx_consensus(tx).kind = "err" THEN verify_tx_consensus(tx)
    ELSE IF build_resolved_tx(c, tx).kind = "panic" THEN build_resolved_tx(c, tx)
    ELSE IF verdict THEN Ok(1) ELSE Err("ScriptVerification")

\* the for_each of receive_tx with idx counting from 1
RECURSIVE ReceiveOutputsFromOne(_, _, _, _)
ReceiveOutputsFromOne(c, tx, tx_hash, idx) ==
    IF idx >= Len(tx.outputs) THEN c
    ELSE ReceiveOutputsFromOne(
             create_cell_with_outpoint(c, OutPoint(tx_hash, idx + 1),
                                       tx.outputs[idx + 1], tx.outputs_data[idx + 1]),
             tx, tx_hash, idx + 1)

\* the for_each of receive_tx over outputs_with_data_iter, idx counting from 0
RECURSIVE ReceiveOutputs(_, _, _, _)
ReceiveOutputs(c, tx, tx_hash, idx) ==
    IF idx >= Len(tx.outputs) THEN c
    ELSE ReceiveOutputs(
             create_cell_with_outpoint(c, OutPoint(tx_hash, idx),
                                       tx.outputs[idx + 1], tx.outputs_data[idx + 1]),
             tx, tx_hash, idx + 1)

\* returns [chain, ret]; Err(_) => todo!() panics
receive_tx(c, tx, verdict) ==
    LET v == verify_tx(c, tx, verdict) IN
    IF v.kind = "ok"
    THEN [chain |-> ReceiveOutputs(c, tx, TxHash(tx), 0), ret |-> Ok(TxHash(tx))]
    ELSE IF v.kind = "panic" THEN [chain |-> c, ret |-> v]
    ELSE [chain |-> c, ret |-> Panic("not yet implemented")]

\* build_script_with_hash_type with the hash type of build_script
build_script_with_hash_type_data1(c, outp, typ, args) ==
    IF ~HasKey(c.cells, outp) THEN None
    ELSE Some(MkScript(DataHash(c.cells[outp][2]), "Data1", args))

\* self.cells.get(outp)? and the script built on the hash of the stored data
build_script_with_hash_type(c, outp, typ, args) ==
    IF ~HasKey(c.cells, outp) THEN None
    ELSE Some(MkScript(DataHash(c.cells[outp][2]), typ, args))

build_script(c, outp, args) == build_script_with_hash_type(c, outp, "Data1", args)

\* a cell of no data locked by the default lock, at a random reference
deploy_random_cell_with_default_lock(c, n, capacity, args) ==
    LET script == Unwrap(build_script(c, Unwrap(c.default_lock),
                                      IF IsSome(args) THEN Unwrap(args) ELSE <<>>))
        out_point == OutPoint(RandomHash(n + 1), 0)
        cell == MkOutput(CapacityBytes(capacity), script, None)
    IN  [chain |-> create_cell_with_outpoint(c, out_point, cell, <<>>),
         ret |-> out_point, drawn |-> 1]

\* GenesisScripts::default()
GenesisScripts ==
    [secp256k1_data |-> SECP256K1_DATA,
     secp256k1_blake160_sighash_all |-> SECP256K1_BLAKE160_SIGHASH_ALL,
     secp256k1_blake160_multisig_all |-> SECP256K1_BLAKE160_MULTISIG_ALL,
     dao |-> DAO]

\* genesis_event deploying every script anew
genesis_event_redeploying(c, n, genesis_scripts) ==
    LET r1 == deploy_cell_with_data_always_new(c, n, genesis_scripts.secp256k1_data)
        r2 == deploy_cell_with_data_always_new(r1.chain, n + 1,
                  genesis_scripts.secp256k1_blake160_sighash_all)
        r3 == deploy_cell_with_data_always_new(r2.chain, n + 2,
                  genesis_scripts.secp256k1_blake160_multisig_all)
        r4 == deploy_cell_with_data_always_new(r3.chain, n + 3, genesis_scripts.dao)
    IN  [chain |-> r4.chain,
         ret |-> [secp256k1_data |-> r1.ret,
                  secp256k1_blake160_sighash_all |-> r2.ret,
                  secp256k1_blake160_multisig_all |-> r3.ret,
                  dao |-> r4.ret],
         drawn |-> 4]

\* genesis_event: four deploy_cell_with_data, and the map from name to reference
genesis_event(c, n, genesis_scripts) ==
    LET r1 == deploy_cell_with_data(c, n, genesis_scripts.secp256k1_data)
        r2 == deploy_cell_with_data(r1.chain, n + r1.drawn,
                  genesis_scripts.secp256k1_blake160_sighash_all)
        r3 == deploy_cell_with_data(r2.chain, n + r1.drawn + r2.drawn,
                  genesis_scripts.secp256k1_blake160_multisig_all)
        r4 == deploy_cell_with_data(r3.chain, n + r1.drawn + r2.drawn + r3.drawn,
                  genesis_scripts.dao)
    IN  [chain |-> r4.chain,
         ret |-> [secp256k1_data |-> r1.ret,
                  secp256k1_blake160_sighash_all |-> r2.ret,
                  secp256k1_blake160_multisig_all |-> r3.ret,
                  dao |-> r4.ret],
         drawn |-> r1.drawn + r2.drawn + r3.drawn + r4.drawn]

\* BlockBuilder::default() with one transaction: header number 0
Block(tx) == [number |-> 0, transactions |-> <<tx>>]

\* the outputs of the genesis transaction with sighash_all and dao exchanged
GenesisOutputsSwapped(secp256k1_data, blake_sighash_all, dao, random_cell, blake_multisig) ==
    <<secp256k1_data, dao, blake_sighash_all, random_cell, blake_multisig>>

\* the outputs of the genesis transaction in the order they are pushed
GenesisOutputs(secp256k1_data, blake_sighash_all, dao, random_cell, blake_multisig) ==
    <<secp256k1_data, blake_sighash_all, dao, random_cell, blake_multisig>>

\* genesis_block_from_chain: every system script is looked up by its code hash
\* and unwrapped; the filler cell is deployed before multisig_all is looked up.
\* The filler has 100000 bytes of capacity in the source, 10 here, so that its
\* shannons stay within 32 bits; nothing reads the value.
genesis_block_from_chain(c, n) ==
    LET Found(blob) == get_cell_by_data_hash(c, DataHash(blob))
        r == deploy_random_cell_with_default_lock(c, n, 10, None)
    IN  IF \/ ~IsSome(Found(SECP256K1_DATA))
           \/ ~IsSome(Found(SECP256K1_BLAKE160_SIGHASH_ALL))
           \/ ~IsSome(Found(DAO))
        THEN [chain |-> c, ret |-> Panic("called Option::unwrap() on a None value"),
              drawn |-> 0]
        ELSE IF ~IsSome(get_cell_by_data_hash(
                            r.chain, DataHash(SECP256K1_BLAKE160_MULTISIG_ALL)))
        THEN [chain |-> r.chain, ret |-> Panic("called Option::unwrap() on a None value"),
              drawn |-> 1]
        ELSE LET cells ==
                     GenesisOutputs(
                         Unwrap(get_cell(c, Unwrap(Found(SECP256K1_DATA)))),
                         Unwrap(get_cell(c, Unwrap(Found(SECP256K1_BLAKE160_SIGHASH_ALL)))),
                         Unwrap(get_cell(c, Unwrap(Found(DAO)))),
                         Unwrap(get_cell(r.chain, r.ret)),
                         Unwrap(get_cell(r.chain, Unwrap(get_cell_by_data_hash(
                             r.chain, DataHash(SECP256K1_BLAKE160_MULTISIG_ALL))))))
             IN  [chain |-> r.chain,
                  ret |-> Ok(Block(MkTx(<<>>, <<>>,
                                        [i \in 1..5 |-> cells[i][1]],
                                        [i \in 1..5 |-> cells[i][2]]))),
                  drawn |-> 1]

\* panics on a hash type other than Data and Data1, and on code never deployed
find_cell_dep_for_script(c, script) ==
    IF script.hash_type # "Data" /\ script.hash_type # "Data1"
    THEN Panic("do not support hash_type yet")
    ELSE IF ~IsSome(get_cell_by_data_hash(c, script.code_hash))
    THEN Panic("Cannot find contract out point with data_hash")
    ELSE Ok(CodeDep(Unwrap(get_cell_by_data_hash(c, script.code_hash))))

\* LinkedHashSet::insert: linked_hash_map re-attaches a value already present
\* at the back of the list
LinkedInsert(set, x) == SelectSeq(set, LAMBDA y : y # x) \o <<x>>

RECURSIVE InsertAll(_, _)
InsertAll(set, xs) ==
    IF xs = <<>> THEN set ELSE InsertAll(LinkedInsert(set, Head(xs)), Tail(xs))

\* complete_tx: the loops over the scripts of inputs and outputs are commented
\* out; the cell deps of tx go through a LinkedHashSet and replace the old list
complete_tx(c, tx) == [tx EXCEPT !.cell_deps = InsertAll(<<>>, tx.cell_deps)]

(***************************************************************************)
(* MockChainTxProvider: the provider a MockChain hands out.                *)
(***************************************************************************)
\* a provider built around the chain itself instead of a clone of it
inner_aliasing(c) == [chain |-> c, cloned |-> FALSE]

\* Chain::inner: MockChainTxProvider::new(self.clone())
inner(c) == [chain |-> c, cloned |-> TRUE]

\* MockChainTxProvider::send_tx on the chain the provider holds: returns
\* [chain, ret]; receive_tx panics where it would return Err
send_tx(c, tx, verdict) ==
    LET r == receive_tx(c, complete_tx(c, tx), verdict) IN
    IF r.ret.kind = "ok" THEN [chain |-> r.chain, ret |-> Ok(Some(r.ret.val))]
    ELSE IF r.ret.kind = "err" THEN [chain |-> r.chain, ret |-> Ok(None)]
    ELSE [chain |-> r.chain, ret |-> r.ret]

\* MockChainTxProvider::verify_tx: true on Ok, false on Err
provider_verify_tx(c, tx, verdict) ==
    LET r == verify_tx(c, complete_tx(c, tx), verdict) IN
    IF r.kind = "ok" THEN Ok(TRUE)
    ELSE IF r.kind = "err" THEN Ok(FALSE)
    ELSE r

(***************************************************************************)
(* Contract<A, D>: args and data are one u8 each (SchemaPrimitiveType).    *)
(* An output rule is [selector, f]; an input rule is the CellQuery its     *)
(* closure returns.                                                        *)
(***************************************************************************)
\* a Contract holding the code D1, without rules
NewContract ==
    [code |-> Some(D1), args |-> <<>>, output_rules |-> <<>>, input_rules |-> <<>>]

\* Contract::data_hash: blake2b of the code, None without code
contract_data_hash(k) == IF IsSome(k.code) THEN Some(DataHash(Unwrap(k.code))) ELSE None

\* Contract::as_script: (data_hash, Data1, args)
as_script(k) ==
    IF IsSome(contract_data_hash(k))
    THEN Some(MkScript(Unwrap(contract_data_hash(k)), "Data1", k.args))
    ELSE None

\* Contract::script_hash: as_script().unwrap() hashed
script_hash(k) ==
    IF IsSome(as_script(k)) THEN Ok(ScriptHash(Unwrap(as_script(k))))
    ELSE Panic("called Option::unwrap() on a None value")

\* Contract::add_output_rule: push at the end of output_rules
add_output_rule(k, field, transform_func) ==
    [k EXCEPT !.output_rules = Append(@, [selector |-> field, f |-> transform_func])]

\* Contract::add_input_rule: push at the end of input_rules
add_input_rule(k, query_func) == [k EXCEPT !.input_rules = Append(@, query_func)]

\* TransactionView::output_with_data(idx), idx counting from 0
output_with_data(tx, idx) ==
    IF idx < Len(tx.outputs) THEN Some(<<tx.outputs[idx + 1], tx.outputs_data[idx + 1]>>)
    ELSE None

\* the test of the filter_map closure: type-script hash or lock-script hash
IsOwnOutput(k, output) ==
    \/ IsSome(output.type_) /\ ScriptHash(Unwrap(output.type_)) = script_hash(k).val
    \/ CalcLockHash(output) = script_hash(k).val

\* the filter_map of Contract::pipe from the output at position pos (from 1):
\* a match yields output_with_data(idx), and idx grows on a mismatch only
RECURSIVE SelectOutputs(_, _, _, _)
SelectOutputs(k, tx, pos, idx) ==
    IF pos > Len(tx.outputs) THEN <<>>
    ELSE IF IsOwnOutput(k, tx.outputs[pos])
    THEN output_with_data(tx, idx) \o SelectOutputs(k, tx, pos + 1, idx)
    ELSE SelectOutputs(k, tx, pos + 1, idx + 1)

\* the closures given to add_output_rule: u8 arithmetic on the Data field
RuleFn(f, v) ==
    CASE f = "inc" -> (v + 1) % 256
      [] f = "dbl" -> (v * 2) % 256

\* one arm of the match on rule.0; read_raw_data decodes one byte
ApplyRule(output, rule) ==
    IF rule.selector = "Data"
    THEN IF Len(output[2]) = 1
         THEN Ok(<<output[1], <<RuleFn(rule.f, output[2][1])>>>>)
         ELSE Panic("Unable to build primitive type from bytes")
    ELSE Panic("not yet implemented")

\* the fold with every rule applied a second time
RECURSIVE ApplyOutputRulesTwice(_, _)
ApplyOutputRulesTwice(rules, output) ==
    IF rules = <<>> THEN Ok(output)
    ELSE IF ApplyRule(output, Head(rules)).kind = "panic" THEN ApplyRule(output, Head(rules))
    ELSE ApplyOutputRulesTwice(
             Tail(rules), ApplyRule(ApplyRule(output, Head(rules)).val, Head(rules)).val)

\* self.output_rules.iter().fold(output, ..)
RECURSIVE ApplyOutputRules(_, _)
ApplyOutputRules(rules, output) ==
    IF rules = <<>> THEN Ok(output)
    ELSE IF ApplyRule(output, Head(rules)).kind = "panic" THEN ApplyRule(output, Head(rules))
    ELSE ApplyOutputRules(Tail(rules), ApplyRule(output, Head(rules)).val)

\* Contract::pipe: returns [ret, queries], queries being what it pushes on the
\* query queue; a panic leaves the queue alone
Contract_pipe(k, tx) ==
    LET selected == SelectOutputs(k, tx, 1, 0)
        outputs == [i \in 1..Len(selected) |-> ApplyOutputRules(k.output_rules, selected[i])]
    IN  IF tx.outputs # <<>> /\ script_hash(k).kind = "panic"
        THEN [ret |-> script_hash(k), queries |-> <<>>]
        ELSE IF \E i \in 1..Len(outputs) : outputs[i].kind = "panic"
        THEN [ret |-> outputs[CHOOSE i \in 1..Len(outputs) :
                                  /\ outputs[i].kind = "panic"
                                  /\ \A j \in 1..(i - 1) : outputs[j].kind = "ok"],
              queries |-> <<>>]
        ELSE [ret |-> Ok([tx EXCEPT
                            !.outputs = [i \in 1..Len(outputs) |-> outputs[i].val[1]],
                            !.outputs_data = [i \in 1..Len(outputs) |-> outputs[i].val[2]]]),
              queries |-> k.input_rules]

(***************************************************************************)
(* The ledger as a state machine: one action per public operation.         *)
(***************************************************************************)
\* the record of the latest call: nth = 2 when it repeats the call before it
Call(op, args, ret) ==
    [op |-> op, args |-> args, ret |-> ret,
     nth |-> IF last.op = op /\ last.args = args THEN 2 ELSE 1]

\* the references a caller can name: those returned so far and one of its own
KnownOuts == {R(n) : n \in 1..rng} \cup {ExtOut}

\* no generation pass is running
GenIdle == gen.pc \in {"idle", "done"}

GenVarsUnchanged ==
    UNCHANGED <<middleware, query_queue, query_register, gen, calls, contract, scr, provider>>

\* commit the outcome [chain, ret, drawn] of a call that may draw random hashes
Commit(op, args, r) ==
    /\ ops < MaxOps
    /\ ops' = ops + 1
    /\ chain' = r.chain
    /\ rng' = rng + r.drawn
    /\ last' = Call(op, args, Ok(r.ret))
    /\ GenVarsUnchanged

\* a method taking &self that writes the data-hash index
SharedBorrowClearing(c) == [c EXCEPT !.cells_by_data_hash = EmptyMap]

\* a method taking &self: the chain after the call is the chain before it
SharedBorrow(c) == c

\* the outcome of a lookup: only the record of the call changes
Answer(op, args, ret) ==
    /\ GenIdle
    /\ chain' = SharedBorrow(chain)
    /\ last' = Call(op, args, ret)
    /\ UNCHANGED <<rng, ops>>
    /\ GenVarsUnchanged

DeployCellWithData ==
    \E data \in Datas :
        /\ GenIdle
        /\ Commit("deploy_cell_with_data", <<data>>, deploy_cell_with_data(chain, rng, data))

DeployCellOutput ==
    \E data \in Datas, output \in Templates :
        /\ GenIdle
        /\ Commit("deploy_cell_output", <<data, output>>,
                  deploy_cell_output(chain, rng, data, output))

CreateCell ==
    \E cell \in Templates, data \in Datas :
        /\ GenIdle
        /\ Commit("create_cell", <<cell, data>>, create_cell(chain, rng, cell, data))

CreateCellWithOutpoint ==
    \E outp \in KnownOuts, cell \in Templates, data \in Datas :
        /\ GenIdle
        /\ Commit("create_cell_with_outpoint", <<outp, cell, data>>,
                  [chain |-> create_cell_with_outpoint(chain, outp, cell, data),
                   ret |-> <<>>, drawn |-> 0])

InsertHeader ==
    \E header \in HeaderUniverse :
        /\ GenIdle
        /\ ops < MaxOps
        /\ ops' = ops + 1
        /\ chain' = insert_header(chain, header)
        /\ last' = Call("insert_header", <<header>>, Ok(<<>>))
        /\ UNCHANGED rng
        /\ GenVarsUnchanged

LinkCellWithBlock ==
    \E outp \in KnownOuts, hash \in HeaderHashes, tx_idx \in {0, 1} :
        LET r == link_cell_with_block(chain, outp, hash, tx_idx) IN
        /\ GenIdle
        /\ ops < MaxOps
        /\ ops' = ops + 1
        /\ chain' = IF r.kind = "ok" THEN r.val ELSE chain
        /\ last' = Call("link_cell_with_block", <<outp, hash, tx_idx>>,
                        IF r.kind = "ok" THEN Ok(<<>>) ELSE r)
        /\ UNCHANGED rng
        /\ GenVarsUnchanged

BuildResolvedTx ==
    \E tx \in ResolveTxs :
        Answer("build_resolved_tx", <<tx>>, build_resolved_tx(chain, tx))

\* complete_tx takes &mut self and writes no field
CompleteTx ==
    \E tx \in CompleteTxs :
        /\ GenIdle
        /\ last' = Call("complete_tx", <<tx>>, Ok(complete_tx(chain, tx)))
        /\ UNCHANGED <<chain, rng, ops>>
        /\ GenVarsUnchanged

ReceiveTx ==
    \E tx \in ReceiveTxs, verdict \in BOOLEAN :
        LET r == receive_tx(chain, tx, verdict) IN
        /\ GenIdle
        /\ ops < MaxOps
        /\ ops' = ops + 1
        /\ chain' = r.chain
        /\ last' = Call("receive_tx", <<tx, verdict>>, r.ret)
        /\ UNCHANGED rng
        /\ GenVarsUnchanged

\* CellMetaTransaction: From<TransactionView> leaves inputs empty
CellMetaTransaction(tx, inputs) == [tx |-> tx, inputs |-> inputs]

\* a Generator between passes: Generator::new() holds the empty transaction
IdleGen ==
    [pc |-> "idle", i |-> 0, passes |-> 0, own |-> TRUE,
     tx |-> CellMetaTransaction(EmptyTx, <<>>), drained |-> <<>>, before |-> <<>>,
     ret |-> None, prev |-> None]

\* the state after MockChain::default(); no Generator is in use
Init ==
    /\ chain = DefaultChain
    /\ rng = 1
    /\ ops = 0
    /\ contract = NewContract
    /\ scr = Script_default
    /\ provider = None
    /\ last = [op |-> "default", args |-> <<>>, ret |-> Ok(<<>>), nth |-> 1]
    /\ middleware = <<>>
    /\ query_queue = <<>>
    /\ query_register = <<>>
    /\ gen = IdleGen
    /\ calls = <<>>

Next ==
    \/ DeployCellWithData
    \/ DeployCellOutput
    \/ CreateCell
    \/ CreateCellWithOutpoint
    \/ InsertHeader
    \/ LinkCellWithBlock
    \/ ReceiveTx

Spec == Init /\ [][Next]_vars

(***************************************************************************)
(* QueryProvider for MockChainTxProvider: the provider queries its chain.  *)
(***************************************************************************)
Single(attr) == [kind |-> "Single", attr |-> attr]

CellQuery(query, limit) == [_query |-> query, _limit |-> limit]

\* (lock-hash = hash of LockA, limit 1) and (type script = TypeA, limit 1)
QLock == CellQuery(Single([kind |-> "LockHash", hash |-> ScriptHash(LockA)]), 1)

QType == CellQuery(Single([kind |-> "TypeScript", script |-> TypeA]), 1)

\* the unwrap of the index look-up in each arm of query
UnwrapCells(cells) ==
    IF IsSome(cells) THEN Ok(Some(Unwrap(cells)))
    ELSE Panic("called Option::unwrap() on a None value")

\* MockChainTxProvider::query; _limit is destructured and not used
query(c, q) ==
    LET attr == q._query.attr IN
    IF q._query.kind = "Single"
    THEN CASE attr.kind = "LockHash" ->
                  UnwrapCells(get_cells_by_lock_hash(c, attr.hash))
           [] attr.kind = "LockScript" ->
                  UnwrapCells(get_cells_by_lock_hash(c, ScriptHash(attr.script)))
           [] attr.kind = "TypeScript" ->
                  UnwrapCells(get_cells_by_type_hash(c, ScriptHash(attr.script)))
           [] attr.kind = "DataHash" ->
                  IF IsSome(get_cell_by_data_hash(c, attr.hash))
                  THEN Ok(Some(<<Unwrap(get_cell_by_data_hash(c, attr.hash))>>))
                  ELSE Panic("called Option::unwrap() on a None value")
           [] OTHER -> Panic("Capacity based queries currently unsupported!")
    ELSE Panic("Compund queries currently unsupported!")

\* CellMetaBuilder::from_cell_output(output, data).out_point(outp).build()
QueriedCellMeta(c, outp) ==
    [cell_output |-> c.cells[outp][1], mem_cell_data |-> c.cells[outp][2],
     out_point |-> outp, transaction_info |-> None]

query_cell_meta(c, q) ==
    LET r == query(c, q) IN
    IF r.kind = "panic" THEN r
    ELSE IF ~IsSome(r.val) THEN Ok(None)
    ELSE IF \E i \in 1..Len(Unwrap(r.val)) : ~HasKey(c.cells, Unwrap(r.val)[i])
    THEN Panic("called Option::unwrap() on a None value")
    ELSE Ok(Some([i \in 1..Len(Unwrap(r.val)) |-> QueriedCellMeta(c, Unwrap(r.val)[i])]))

(***************************************************************************)
(* Generator and its middleware.                                           *)
(***************************************************************************)
\* the GeneratorMiddleware trait objects of the model: what each pushes in
\* update_query_register and how its pipe rewrites the data of the outputs
MwInc == [name |-> "inc", queries |-> <<QLock>>, rule |-> "inc"]

MwDbl == [name |-> "dbl", queries |-> <<QType>>, rule |-> "dbl"]

MwPush == [name |-> "push", queries |-> <<>>, rule |-> "push"]

\* the Contract bound to D1 with one Data rule adding 1
IncContract == add_output_rule(NewContract, "Data", "inc")

\* a Contract as middleware, with one input rule asking for a cell locked by
\* LockA: the source gives it no update_query_register
MwContract ==
    [name |-> "contract", queries |-> <<>>, rule |-> "contract",
     contract |-> add_input_rule(IncContract, QLock)]

MwUniverse == {MwInc, MwDbl, MwPush, MwContract}

\* Generator::pipeline: any list of different middleware up to the bound
Pipelines ==
    {p \in UNION {[1..n -> MwUniverse] : n \in 0..MaxPipe} :
        \A i, j \in 1..Len(p) : i # j => p[i] # p[j]}

\* a working transaction with one output holding the data value 5
TxFive == MkTx(<<>>, <<>>, <<MkOutput(100, LockA, None)>>, <<<<5>>>>)

\* GeneratorMiddleware::update_query_register of a middleware of the model
MwUpdateQueryRegister(m, tx, register) == register \o m.queries

\* GeneratorMiddleware::pipe of a middleware of the model: u8 arithmetic on the data
MwPipe(m, tx) ==
    LET t == tx.tx IN
    CASE m.rule = "inc" ->
             [tx EXCEPT !.tx.outputs_data =
                  [i \in 1..Len(t.outputs_data) |-> <<(t.outputs_data[i][1] + 1) % 256>>]]
      [] m.rule = "dbl" ->
             [tx EXCEPT !.tx.outputs_data =
                  [i \in 1..Len(t.outputs_data) |-> <<(t.outputs_data[i][1] * 2) % 256>>]]
      [] m.rule = "push" ->
             [tx EXCEPT !.tx.outputs = Append(@, MkOutput(100, LockA, None)),
                        !.tx.outputs_data = Append(@, <<5>>)]
      [] m.rule = "contract" ->
             [tx EXCEPT !.tx = Contract_pipe(m.contract, t).ret.val]

\* what the pipe of a middleware pushes on the register it is given
MwPipeQueries(m, tx) ==
    IF m.rule = "contract" THEN Contract_pipe(m.contract, tx.tx).queries ELSE <<>>

\* the i-th middleware visited by self.middleware.iter(), read back to front
MiddlewareAtReversed(pipeline, i) == pipeline[Len(pipeline) + 1 - i]

\* the i-th middleware visited by self.middleware.iter()
MiddlewareAt(pipeline, i) == pipeline[i]

\* resolve_queries reading the register back to front
resolve_queries_reversed(c, register) ==
    IF \E k \in 1..Len(register) :
           \/ query_cell_meta(c, register[k]).kind = "panic"
           \/ ~IsSome(query_cell_meta(c, register[k]).val)
    THEN Panic("called Option::unwrap() on a None value")
    ELSE Ok(Flatten([k \in 1..Len(register) |->
                        Unwrap(query_cell_meta(c, register[Len(register) + 1 - k]).val)]))

\* Generator::resolve_queries: flat_map of self.query(q).unwrap() over the register
resolve_queries(c, register) ==
    IF \E k \in 1..Len(register) :
           \/ query_cell_meta(c, register[k]).kind = "panic"
           \/ ~IsSome(query_cell_meta(c, register[k]).val)
    THEN Panic("called Option::unwrap() on a None value")
    ELSE Ok(Flatten([k \in 1..Len(register) |->
                        Unwrap(query_cell_meta(c, register[k]).val)]))

\* the register of the running pass: the Generator's own or the caller's
Register == IF gen.own THEN query_queue ELSE query_register

SetRegister(r) ==
    IF gen.own THEN query_queue' = r /\ UNCHANGED query_register
    ELSE query_register' = r /\ UNCHANGED query_queue

\* entry of Generator::pipe(tx, query_register)
StartPass(own, tx, register) ==
    /\ gen.pc \in {"idle", "done"}
    /\ gen.passes < MaxPass
    /\ gen' = [pc |-> IF Len(middleware) = 0 THEN "drain" ELSE "register",
               i |-> 1, passes |-> gen.passes + 1, own |-> own,
               tx |-> tx, drained |-> <<>>, before |-> register,
               ret |-> None,
               prev |-> IF gen.pc = "done" /\ gen.own /\ own
                        THEN Some(gen.tx.tx.inputs) ELSE None]
    /\ calls' = <<>>
    /\ UNCHANGED <<scr, provider, chain, rng, ops, last, middleware, query_queue, query_register,
                   contract>>

\* Generator::generate: pipe(self.tx.clone(), self.query_queue.clone())
Generate == StartPass(TRUE, CellMetaTransaction(EmptyTx, <<>>), query_queue)

\* Generator::pipe called as a middleware, on the caller's transaction and register
PipeCall == StartPass(FALSE, CellMetaTransaction(TxFive, <<>>), query_register)

\* one step of the for_each of Generator::update_query_register
GenUpdateQueryRegister ==
    LET m == MiddlewareAt(middleware, gen.i) IN
    /\ gen.pc = "register"
    /\ SetRegister(MwUpdateQueryRegister(m, gen.tx, Register))
    /\ calls' = Append(calls, [phase |-> "update_query_register", mw |-> m.name,
                               tx_in |-> gen.tx, tx_out |-> gen.tx])
    /\ gen' = IF gen.i = Len(middleware)
              THEN [gen EXCEPT !.pc = "drain"]
              ELSE [gen EXCEPT !.i = @ + 1]
    /\ UNCHANGED <<scr, provider, chain, rng, ops, last, middleware,
                   contract>>

\* the working transaction given the resolved cells but not their references
WithResolvedInputsOnly(tx, inputs) == CellMetaTransaction(tx.tx, inputs)

\* set_inputs(previous_output of each resolved cell), then tx.tx(inner_tx).inputs(inputs)
WithResolvedInputs(tx, inputs) ==
    CellMetaTransaction(
        [tx.tx EXCEPT !.inputs = [k \in 1..Len(inputs) |-> inputs[k].out_point]],
        inputs)

\* Generator::pipe from resolve_queries to tx.tx(inner_tx).inputs(inputs)
GenResolveQueries ==
    LET r == resolve_queries(chain, Register) IN
    /\ gen.pc = "drain"
    /\ gen' = IF r.kind = "panic"
              THEN [gen EXCEPT !.pc = "panicked", !.drained = Register, !.ret = Some(r)]
              ELSE LET tx == WithResolvedInputs(gen.tx, r.val)
                   IN  [gen EXCEPT
                          !.pc = IF Len(middleware) = 0 THEN "done" ELSE "fold",
                          !.i = 1,
                          !.drained = Register,
                          !.tx = tx,
                          !.ret = IF Len(middleware) = 0 THEN Some(Ok(tx)) ELSE None]
    /\ UNCHANGED <<scr, provider, chain, rng, ops, last, middleware, query_queue, query_register, calls,
                   contract>>

\* one step of the fold of Generator::pipe over the middleware
GenFold ==
    LET m == MiddlewareAt(middleware, gen.i)
        out == MwPipe(m, gen.tx)
    IN  /\ gen.pc = "fold"
        /\ calls' = Append(calls, [phase |-> "pipe", mw |-> m.name,
                                   tx_in |-> gen.tx, tx_out |-> out])
        /\ gen' = IF gen.i = Len(middleware)
                  THEN [gen EXCEPT !.pc = "done", !.tx = out, !.ret = Some(Ok(out))]
                  ELSE [gen EXCEPT !.i = @ + 1, !.tx = out]
        /\ SetRegister(Register \o MwPipeQueries(m, gen.tx))
        /\ UNCHANGED <<scr, provider, chain, rng, ops, last, middleware, contract>>

\* a cell created on the provider's chain before the Generator runs
ProviderCreateCell ==
    \E cell \in {MkOutput(100, LockA, None), MkOutput(200, DefaultScript, Some(TypeA))} :
        /\ gen.passes = 0
        /\ Commit("create_cell", <<cell, D1>>, create_cell(chain, rng, cell, D1))

\* a Generator built by new().pipeline(p).query_service(provider of the chain)
InitGen ==
    /\ chain = DefaultChain
    /\ rng = 1
    /\ ops = 0
    /\ contract = NewContract
    /\ scr = Script_default
    /\ provider = None
    /\ last = [op |-> "default", args |-> <<>>, ret |-> Ok(<<>>), nth |-> 1]
    /\ middleware \in Pipelines
    /\ query_queue = <<>>
    /\ query_register = <<>>
    /\ gen = IdleGen
    /\ calls = <<>>

NextGen ==
    \/ ProviderCreateCell
    \/ Generate
    \/ PipeCall
    \/ GenUpdateQueryRegister
    \/ GenResolveQueries
    \/ GenFold

SpecGen == InitGen /\ [][NextGen]_vars

\* the calls around build_resolved_tx: cells, headers, locations, resolution
NextResolve ==
    \/ DeployCellWithData
    \/ CreateCell
    \/ InsertHeader
    \/ LinkCellWithBlock
    \/ BuildResolvedTx
    \/ CompleteTx

SpecResolve == Init /\ [][NextResolve]_vars

(***************************************************************************)
(* A Contract used on its own: rules are added, then pipe is called with a *)
(* transaction and a query queue (query_register).                         *)
(***************************************************************************)
\* an output locked by the contract's script, one typed by it, one foreign
OwnLockOutput == MkOutput(100, LockA, None)

OwnTypeOutput == MkOutput(200, DefaultScript, Some(LockA))

ForeignOutput == MkOutput(100, DefaultScript, Some(TypeA))

\* the output lists of the transactions handed to Contract::pipe
PipeOutputs ==
    {<<>>,
     <<OwnLockOutput>>,
     <<ForeignOutput>>,
     <<OwnLockOutput, ForeignOutput>>,
     <<ForeignOutput, OwnLockOutput>>,
     <<OwnLockOutput, OwnTypeOutput>>,
     <<OwnTypeOutput, ForeignOutput>>,
     <<ForeignOutput, OwnTypeOutput>>,
     <<OwnLockOutput, ForeignOutput, OwnTypeOutput>>,
     <<ForeignOutput, ForeignOutput, OwnLockOutput>>}

\* the i-th output holds the one byte i + 2
PipeTxs ==
    {MkTx(<<>>, <<>>, outs, [i \in 1..Len(outs) |-> <<i + 2>>]) : outs \in PipeOutputs}
    \cup {MkTx(<<>>, <<>>, <<OwnLockOutput>>, <<<<3, 3>>>>)}

\* ContractCellFieldSelector
Selectors == {"Args", "Data", "LockScript", "TypeScript", "Capacity"}

\* the (selector, closure) pairs given to add_output_rule
OutputRuleArgs ==
    {<<"Data", "inc">>, <<"Data", "dbl">>}
    \cup {<<field, "inc">> : field \in Selectors \ {"Data"}}

AddOutputRule ==
    \E rule \in OutputRuleArgs :
        /\ Len(contract.output_rules) < MaxRules
        /\ contract' = add_output_rule(contract, rule[1], rule[2])
        /\ last' = Call("add_output_rule", rule, Ok(<<>>))
        /\ UNCHANGED <<scr, provider, chain, rng, ops, middleware, query_queue, query_register, gen, calls>>

AddInputRule ==
    \E q \in {QLock} :
        /\ Len(contract.input_rules) < MaxRules
        /\ contract' = add_input_rule(contract, q)
        /\ last' = Call("add_input_rule", <<q>>, Ok(<<>>))
        /\ UNCHANGED <<scr, provider, chain, rng, ops, middleware, query_queue, query_register, gen, calls>>

\* Contract::pipe(tx, query_queue) on the contract as it stands
ContractPipe ==
    \E tx \in PipeTxs :
        LET r == Contract_pipe(contract, tx) IN
        /\ ops < MaxOps
        /\ ops' = ops + 1
        /\ query_register' = query_register \o r.queries
        /\ last' = Call("Contract::pipe", <<contract, tx>>, r.ret)
        /\ UNCHANGED <<scr, provider, chain, rng, middleware, query_queue, gen, calls, contract>>

NextContract ==
    \/ AddOutputRule
    \/ AddInputRule
    \/ ContractPipe

SpecContract == Init /\ [][NextContract]_vars

(***************************************************************************)
(* Scripts and the genesis event: code is deployed, scripts are built on   *)
(* it and looked up, the system scripts are deployed by genesis_event.     *)
(***************************************************************************)
\* the scripts handed to find_cell_dep_for_script
LookupScripts ==
    {LockA, TypeA, DefaultScript,
     MkScript(DataHash(D1), "Type", <<>>),
     MkScript(DataHash(D2), "Data", <<>>)}

\* the references handed to the lookups: the default lock's, the next one
\* stored, and one the chain never stores
LookupOuts == {R(1), R(2), ExtOut}

BuildScriptWithHashType ==
    \E outp \in LookupOuts, typ \in Range(HashTypes), args \in Range(ArgsUniverse) :
        Answer("build_script_with_hash_type", <<outp, typ, args>>,
               Ok(build_script_with_hash_type(chain, outp, typ, args)))

BuildScript ==
    \E outp \in LookupOuts :
        Answer("build_script", <<outp, <<9>>>>, Ok(build_script(chain, outp, <<9>>)))

FindCellDepForScript ==
    \E script \in LookupScripts :
        Answer("find_cell_dep_for_script", <<script>>,
               find_cell_dep_for_script(chain, script))

GetCell ==
    \E out_point \in LookupOuts :
        Answer("get_cell", <<out_point>>, Ok(get_cell(chain, out_point)))

\* the hashes callers look up: of data and scripts stored or not
LookupDataHashes ==
    {DataHash(ALWAYS_SUCCESS), DataHash(SECP256K1_DATA), DataHash(DAO), DataHash(D2)}

LookupScriptHashes == {ScriptHash(DefaultScript), ScriptHash(TypeA), ScriptHash(LockA)}

GetCellByDataHash ==
    \E data_hash \in LookupDataHashes :
        Answer("get_cell_by_data_hash", <<data_hash>>,
               Ok(get_cell_by_data_hash(chain, data_hash)))

GetCellsByLockHash ==
    \E hash \in LookupScriptHashes :
        Answer("get_cells_by_lock_hash", <<hash>>, Ok(get_cells_by_lock_hash(chain, hash)))

GetCellsByTypeHash ==
    \E hash \in LookupScriptHashes :
        Answer("get_cells_by_type_hash", <<hash>>, Ok(get_cells_by_type_hash(chain, hash)))

\* a cell holding one of the system scripts, created before the genesis event
CreateCellWithBlob ==
    \E cell \in {MkOutput(100, DefaultScript, None),
                  MkOutput(200, DefaultScript, Some(TypeA))} :
        /\ GenIdle
        /\ Commit("create_cell", <<cell, SECP256K1_DATA>>,
                  create_cell(chain, rng, cell, SECP256K1_DATA))

GenesisEvent ==
    /\ GenIdle
    /\ Commit("genesis_event", <<GenesisScripts>>, genesis_event(chain, rng, GenesisScripts))

GenesisBlockFromChain ==
    LET r == genesis_block_from_chain(chain, rng) IN
    /\ GenIdle
    /\ ops < MaxOps
    /\ ops' = ops + 1
    /\ chain' = r.chain
    /\ rng' = rng + r.drawn
    /\ last' = Call("genesis_block_from_chain", <<>>, r.ret)
    /\ GenVarsUnchanged

NextScripts ==
    \/ DeployCellWithData
    \/ CreateCellWithBlob
    \/ GenesisEvent
    \/ GenesisBlockFromChain
    \/ BuildScriptWithHashType
    \/ BuildScript
    \/ FindCellDepForScript
    \/ GetCell
    \/ GetCellByDataHash
    \/ GetCellsByLockHash
    \/ GetCellsByTypeHash
    \/ BuildResolvedTx

SpecScripts == Init /\ [][NextScripts]_vars

(***************************************************************************)
(* A Script value: built by a constructor, then changed by set_args.       *)
(***************************************************************************)
\* the scripts handed to the constructors as JSON
JsonScripts ==
    {MkScript(code_hash, hash_type, args) :
        code_hash \in {ZeroHash, DataHash(D1)},
        hash_type \in Range(HashTypes),
        args \in Range(ArgsUniverse)}

\* the packed scripts handed to From<PackedScript>, one with an unknown hash type
PackedScripts ==
    {PackedScript(j.code_hash, j.hash_type, j.args) : j \in JsonScripts}
        \cup {[code_hash |-> ZeroHash, hash_type |-> 3, args |-> <<>>]}

\* a step on the Script value: nothing else changes
ScriptStep(op, args, ret, next) ==
    /\ scr' = next
    /\ last' = Call(op, args, ret)
    /\ UNCHANGED <<chain, rng, ops>>
    /\ UNCHANGED <<middleware, query_queue, query_register, gen, calls, contract,
                   provider>>

ScriptDefault == ScriptStep("default", <<>>, Ok(<<>>), Script_default)

ScriptFromJson ==
    \E j \in JsonScripts : ScriptStep("from_json", <<j>>, Ok(<<>>), Script_from_json(j))

ScriptFromPacked ==
    \E p \in PackedScripts :
        LET r == Script_from_packed(p) IN
        ScriptStep("from_packed", <<p>>, IF r.kind = "ok" THEN Ok(<<>>) ELSE r,
                   IF r.kind = "ok" THEN r.val ELSE scr)

ScriptSetArgs ==
    \E args \in Range(ArgsUniverse) :
        ScriptStep("set_args", <<args>>, Ok(<<>>), Script_set_args(scr, args))

ScriptValidate == ScriptStep("validate", <<>>, Script_validate(scr), scr)

NextScriptValue ==
    \/ ScriptDefault
    \/ ScriptFromJson
    \/ ScriptFromPacked
    \/ ScriptSetArgs
    \/ ScriptValidate

SpecScriptValue == Init /\ [][NextScriptValue]_vars

(***************************************************************************)
(* A MockChain and the provider obtained from it by inner().               *)
(***************************************************************************)
\* what a call through the provider leaves in the MockChain it came from
OriginAfter(c) == IF Unwrap(provider).cloned THEN chain ELSE c

Inner ==
    /\ GenIdle
    /\ provider' = Some(inner(chain))
    /\ last' = Call("inner", <<>>, Ok(<<>>))
    /\ UNCHANGED <<chain, rng, ops>>
    /\ UNCHANGED <<middleware, query_queue, query_register, gen, calls, contract, scr>>

SendTx ==
    \E tx \in ReceiveTxs, verdict \in BOOLEAN :
        /\ GenIdle
        /\ IsSome(provider)
        /\ ops < MaxOps
        /\ ops' = ops + 1
        /\ LET r == send_tx(Unwrap(provider).chain, tx, verdict) IN
           /\ provider' = Some([Unwrap(provider) EXCEPT !.chain = r.chain])
           /\ chain' = OriginAfter(r.chain)
           /\ last' = Call("send_tx", <<tx, verdict>>, r.ret)
        /\ UNCHANGED rng
        /\ UNCHANGED <<middleware, query_queue, query_register, gen, calls, contract, scr>>

ProviderVerifyTx ==
    \E tx \in ReceiveTxs, verdict \in BOOLEAN :
        /\ GenIdle
        /\ IsSome(provider)
        /\ last' = Call("verify_tx", <<tx, verdict>>,
                        provider_verify_tx(Unwrap(provider).chain, tx, verdict))
        /\ chain' = OriginAfter(Unwrap(provider).chain)
        /\ UNCHANGED <<provider, rng, ops>>
        /\ UNCHANGED <<middleware, query_queue, query_register, gen, calls, contract, scr>>

NextProvider ==
    \/ DeployCellWithData
    \/ Inner
    \/ SendTx
    \/ ProviderVerifyTx

SpecProvider == Init /\ [][NextProvider]_vars

(***************************************************************************)
(* Properties of the cell store.                                           *)
(***************************************************************************)
StoreOf(c) ==
    <<c.cells, c.cells_by_data_hash, c.cells_by_lock_hash, c.cells_by_type_hash,
      c.outpoint_txs>>

\* C1: deploy_cell_with_data(b) returns the reference the data-hash index holds
\* for b and changes nothing when b is already deployed, so a call repeating the
\* call before it returns the same reference and leaves the store and every
\* index unchanged; on new content it adds exactly one cell, under a new
\* reference, holding b.
DeployWithDataIdempotent ==
    [][(last'.op = "deploy_cell_with_data" /\ ops' = ops + 1) =>
        LET b == last'.args[1]
            h == DataHash(b)
        IN  /\ last'.ret.kind = "ok"
            /\ last'.nth = 2 => (last'.ret = last.ret /\ StoreOf(chain') = StoreOf(chain))
            /\ HasKey(chain.cells_by_data_hash, h) =>
                   /\ last'.ret.val = chain.cells_by_data_hash[h]
                   /\ StoreOf(chain') = StoreOf(chain)
            /\ ~HasKey(chain.cells_by_data_hash, h) =>
                   /\ last'.ret.val \notin DOMAIN chain.cells
                   /\ DOMAIN chain'.cells = DOMAIN chain.cells \cup {last'.ret.val}
                   /\ chain'.cells[last'.ret.val][2] = b
                   /\ \A r \in DOMAIN chain.cells : chain'.cells[r] = chain.cells[r]]_vars

\* C1 witness: deploy_cell_with_data has just been called a second time with the
\* same bytes.
DeployWithDataTwice ==
    /\ last.op = "deploy_cell_with_data"
    /\ last.nth = 2
    /\ last.ret.val \in DOMAIN chain.cells

\* C2: a data-hash index entry never changes once it is set, whatever call follows.
DataHashEntryStable ==
    [][\A h \in DOMAIN chain.cells_by_data_hash :
          /\ HasKey(chain'.cells_by_data_hash, h)
          /\ chain'.cells_by_data_hash[h] = chain.cells_by_data_hash[h]]_vars

\* C3: a reference of the primary store maps to the same cell in every later state.
CellNeverReassigned ==
    [][\A r \in DOMAIN chain.cells :
          /\ HasKey(chain'.cells, r)
          /\ chain'.cells[r] = chain.cells[r]]_vars

\* C4: every reference listed under a lock hash (type hash) resolves to a stored
\* cell whose lock script (type script) has that hash.
IndexSound ==
    /\ \A h \in DOMAIN chain.cells_by_lock_hash :
          \A r \in Range(chain.cells_by_lock_hash[h]) :
              /\ HasKey(chain.cells, r)
              /\ CalcLockHash(chain.cells[r][1]) = h
    /\ \A h \in DOMAIN chain.cells_by_type_hash :
          \A r \in Range(chain.cells_by_type_hash[h]) :
              /\ HasKey(chain.cells, r)
              /\ IsSome(chain.cells[r][1].type_)
              /\ ScriptHash(Unwrap(chain.cells[r][1].type_)) = h

MutatingOps ==
    {"deploy_cell_with_data", "deploy_cell_output", "create_cell",
     "create_cell_with_outpoint", "receive_tx"}

Listed(index, hash, r) == HasKey(index, hash) /\ r \in Range(index[hash])

\* C5: after every mutating store operation every stored cell is listed under
\* its lock hash and, when it has a type script, under its type hash.
IndexComplete ==
    last.op \in MutatingOps =>
        \A r \in DOMAIN chain.cells :
            LET cell == chain.cells[r][1] IN
            /\ Listed(chain.cells_by_lock_hash, CalcLockHash(cell), r)
            /\ IsSome(cell.type_) =>
                   Listed(chain.cells_by_type_hash, ScriptHash(Unwrap(cell.type_)), r)

\* C6: every reference held by the data-hash index, a lock-hash list, a type-hash
\* list or the location index is a key of the primary store.
IndexRefsStored ==
    /\ \A h \in DOMAIN chain.cells_by_data_hash :
          HasKey(chain.cells, chain.cells_by_data_hash[h])
    /\ \A h \in DOMAIN chain.cells_by_lock_hash :
          \A r \in Range(chain.cells_by_lock_hash[h]) : HasKey(chain.cells, r)
    /\ \A h \in DOMAIN chain.cells_by_type_hash :
          \A r \in Range(chain.cells_by_type_hash[h]) : HasKey(chain.cells, r)
    /\ \A r \in DOMAIN chain.outpoint_txs : HasKey(chain.cells, r)

\* C23: create_cell(template, data) returns a reference that was no key of the
\* store, also when the same pair was created or deployed before; the store
\* grows by exactly that one cell and no cell it held changes.
CreateCellFresh ==
    [][(last'.op = "create_cell" /\ ops' = ops + 1) =>
        /\ last'.ret.kind = "ok"
        /\ last'.ret.val \notin DOMAIN chain.cells
        /\ DOMAIN chain'.cells = DOMAIN chain.cells \cup {last'.ret.val}
        /\ chain'.cells[last'.ret.val] = <<last'.args[1], last'.args[2]>>
        /\ \A r \in DOMAIN chain.cells : chain'.cells[r] = chain.cells[r]]_vars

\* C23 witness: create_cell has just been called a second time with the same
\* template and data, and the store holds the pair under two references.
CreateCellTwice ==
    /\ last.op = "create_cell"
    /\ last.nth = 2
    /\ \E r \in DOMAIN chain.cells :
           /\ r # last.ret.val
           /\ chain.cells[r] = <<last.args[1], last.args[2]>>
           /\ chain.cells[last.ret.val] = chain.cells[r]

\* C24: deploy_cell_output(data, template) on content whose hash the data-hash
\* index holds returns the indexed reference and leaves the store and every
\* index unchanged, whatever the template; on new content it stores the
\* template and the data under a new reference and returns it.
DeployOutputIdempotent ==
    [][(last'.op = "deploy_cell_output" /\ ops' = ops + 1) =>
        LET b == last'.args[1]
            template == last'.args[2]
            h == DataHash(b)
        IN  /\ last'.ret.kind = "ok"
            /\ HasKey(chain.cells_by_data_hash, h) =>
                   /\ last'.ret.val = chain.cells_by_data_hash[h]
                   /\ StoreOf(chain') = StoreOf(chain)
            /\ ~HasKey(chain.cells_by_data_hash, h) =>
                   /\ last'.ret.val \notin DOMAIN chain.cells
                   /\ DOMAIN chain'.cells = DOMAIN chain.cells \cup {last'.ret.val}
                   /\ chain'.cells[last'.ret.val] = <<template, b>>
                   /\ chain'.cells_by_data_hash[h] = last'.ret.val
                   /\ \A r \in DOMAIN chain.cells : chain'.cells[r] = chain.cells[r]]_vars

\* C24 witness: deploy_cell_output returned the reference of content deployed
\* before, whose stored cell differs from the template it was given.
DeployOutputOnKnownContent ==
    /\ last.op = "deploy_cell_output"
    /\ last.ret.val \in DOMAIN chain.cells
    /\ chain.cells[last.ret.val][2] = last.args[1]
    /\ chain.cells[last.ret.val][1] # last.args[2]

(***************************************************************************)
(* Properties of transaction resolution.                                   *)
(***************************************************************************)
\* the references of a transaction in the order build_resolved_tx examines them
RefsOf(tx) == tx.inputs \o [i \in 1..Len(tx.cell_deps) |-> tx.cell_deps[i].out_point]

Missing(c, refs) == {i \in 1..Len(refs) : ~HasKey(c.cells, refs[i])}

FirstMissing(c, refs) ==
    refs[CHOOSE i \in Missing(c, refs) : \A j \in Missing(c, refs) : i <= j]

\* C7: build_resolved_tx succeeds iff every input and cell-dependency reference
\* is stored; otherwise it fails with UnresolvedReference naming the first
\* missing reference.
ResolveFailsNamingFirstMissing ==
    last.op = "build_resolved_tx" =>
        LET refs == RefsOf(last.args[1]) IN
        IF Missing(chain, refs) = {}
        THEN last.ret.kind = "ok"
        ELSE last.ret = Err([UnresolvedReference |-> FirstMissing(chain, refs)])

\* C8: a successful build_resolved_tx returns one resolved cell per input and
\* one per cell dependency, in declared order, each carrying its reference and
\* equal to the (output, data) pair stored at that reference.
ResolvedOnePerReference ==
    (last.op = "build_resolved_tx" /\ last.ret.kind = "ok") =>
        LET tx == last.args[1]
            rtx == last.ret.val
        IN  /\ rtx.transaction = tx
            /\ Len(rtx.resolved_inputs) = Len(tx.inputs)
            /\ Len(rtx.resolved_cell_deps) = Len(tx.cell_deps)
            /\ \A i \in 1..Len(tx.inputs) :
                  /\ rtx.resolved_inputs[i].out_point = tx.inputs[i]
                  /\ <<rtx.resolved_inputs[i].cell_output,
                       rtx.resolved_inputs[i].mem_cell_data>> = chain.cells[tx.inputs[i]]
            /\ \A i \in 1..Len(tx.cell_deps) :
                  /\ rtx.resolved_cell_deps[i].out_point = tx.cell_deps[i].out_point
                  /\ <<rtx.resolved_cell_deps[i].cell_output,
                       rtx.resolved_cell_deps[i].mem_cell_data>>
                         = chain.cells[tx.cell_deps[i].out_point]

\* C8 witness: a transaction with two different inputs and a dependency resolved.
ResolvedTwoInputsAndDep ==
    /\ last.op = "build_resolved_tx"
    /\ last.ret.kind = "ok"
    /\ Len(last.args[1].inputs) = 2
    /\ last.args[1].inputs[1] # last.args[1].inputs[2]
    /\ chain.cells[last.args[1].inputs[1]] # chain.cells[last.args[1].inputs[2]]
    /\ Len(last.args[1].cell_deps) = 1

(***************************************************************************)
(* Properties of the Generator.                                            *)
(***************************************************************************)
IsUpdateCall(c) == c.phase = "update_query_register"

IsPipeCall(c) == c.phase = "pipe"

\* the data a left fold of the rules, in the order given, leaves in one output
RECURSIVE RulesInOrder(_, _)
RulesInOrder(rules, d) ==
    IF rules = <<>> THEN d
    ELSE RulesInOrder(Tail(rules),
                      CASE Head(rules) = "inc" -> d + 1
                        [] Head(rules) = "contract" -> d + 1
                        [] Head(rules) = "dbl" -> d * 2
                        [] OTHER -> d)

\* C9: in both phases of a pass the middleware are called in pipeline order,
\* the update_query_register calls before the pipe calls, each pipe call
\* receiving the transaction its predecessor returned; so the order is
\* observable: [inc, dbl] turns the data 5 into 12 and [dbl, inc] into 11.
MiddlewareInPipelineOrder ==
    LET updates == SelectSeq(calls, IsUpdateCall)
        pipes == SelectSeq(calls, IsPipeCall)
        n == Len(middleware)
    IN  /\ calls = updates \o pipes
        /\ Len(updates) <= n
        /\ Len(pipes) <= n
        /\ \A k \in 1..Len(updates) : updates[k].mw = middleware[k].name
        /\ \A k \in 1..Len(pipes) : pipes[k].mw = middleware[k].name
        /\ \A k \in 2..Len(pipes) : pipes[k].tx_in = pipes[k - 1].tx_out
        /\ pipes # <<>> => Len(updates) = n
        /\ gen.pc = "done" =>
               /\ Len(pipes) = n
               /\ n > 0 => gen.tx = pipes[n].tx_out
               /\ (~gen.own /\ MwPush \notin Range(middleware)) =>
                      gen.tx.tx.outputs_data =
                          <<<<RulesInOrder([j \in 1..n |-> middleware[j].rule], 5)>>>>
               /\ (middleware = <<MwInc, MwDbl>> /\ ~gen.own) =>
                      gen.tx.tx.outputs_data = <<<<12>>>>
               /\ (middleware = <<MwDbl, MwInc>> /\ ~gen.own) =>
                      gen.tx.tx.outputs_data = <<<<11>>>>

\* C9 witness: the pipeline [dbl, inc] has run on the output holding 5.
ReversedPipelineDone ==
    /\ gen.pc = "done"
    /\ middleware = <<MwDbl, MwInc>>
    /\ ~gen.own
    /\ Len(calls) = 4
    /\ gen.tx.tx.outputs_data = <<<<11>>>>

\* the references the provider's indices hold for a query
IndexedFor(q) ==
    IF q = QLock THEN chain.cells_by_lock_hash[ScriptHash(LockA)]
    ELSE chain.cells_by_type_hash[ScriptHash(TypeA)]

\* C10: the inputs of the generated transaction are the concatenation, in
\* registration order, of the provider's results for each registered query
\* (the register read at the drain: what it held when the pass began, then
\* the queries of the middleware in pipeline order); the queries (lock L1)
\* then (type T1), one match each, give [L1-match, T1-match].
InputsAreQueryResultsInOrder ==
    gen.pc = "done" =>
        LET refs == Flatten([k \in 1..Len(gen.drained) |-> IndexedFor(gen.drained[k])])
        IN  /\ gen.drained =
                   gen.before \o Flatten([k \in 1..Len(middleware) |-> middleware[k].queries])
            /\ gen.tx.tx.inputs = refs
            /\ Len(gen.tx.inputs) = Len(refs)
            /\ \A k \in 1..Len(refs) :
                   /\ gen.tx.inputs[k].out_point = refs[k]
                   /\ <<gen.tx.inputs[k].cell_output, gen.tx.inputs[k].mem_cell_data>>
                          = chain.cells[refs[k]]
            /\ (/\ gen.drained = <<QLock, QType>>
                /\ Len(IndexedFor(QLock)) = 1
                /\ Len(IndexedFor(QType)) = 1) =>
                   gen.tx.tx.inputs = <<IndexedFor(QLock)[1], IndexedFor(QType)[1]>>

\* C10 witness: (lock L1) then (type T1) were registered, each with one match.
TwoQueriesOneMatchEach ==
    /\ gen.pc = "done"
    /\ gen.drained = <<QLock, QType>>
    /\ Len(gen.tx.tx.inputs) = 2
    /\ gen.tx.tx.inputs[1] # gen.tx.tx.inputs[2]
    /\ CalcLockHash(chain.cells[gen.tx.tx.inputs[1]][1]) = ScriptHash(LockA)
    /\ chain.cells[gen.tx.tx.inputs[2]][1].type_ = Some(TypeA)

\* C11: when generate() completes the Generator's query registry is empty, the
\* pass having read and then cleared it.
RegistryEmptyAfterGenerate ==
    (gen.pc = "done" /\ gen.own) => query_queue = <<>>

\* C12: every generate() starts from an empty registry, and a second generate()
\* on the same Generator, the provider unchanged, returns the input list the
\* first one returned.
SecondGenerateSameInputs ==
    (gen.pc = "done" /\ gen.own) =>
        /\ gen.before = <<>>
        /\ IsSome(gen.prev) => gen.tx.tx.inputs = Unwrap(gen.prev)

\* the positions of the register whose query the provider cannot satisfy
Unsatisfied(c, register) ==
    {k \in 1..Len(register) :
        \/ query_cell_meta(c, register[k]).kind # "ok"
        \/ ~IsSome(query_cell_meta(c, register[k]).val)}

\* C13: a pass fails iff a registered query cannot be satisfied, and then it
\* fails with QueryUnsatisfied naming that query and returns no transaction.
QueryUnsatisfiedNamed ==
    gen.pc \in {"done", "panicked"} =>
        LET u == Unsatisfied(chain, gen.drained) IN
        IF u = {}
        THEN gen.pc = "done" /\ IsSome(gen.ret) /\ Unwrap(gen.ret).kind = "ok"
        ELSE gen.ret =
                 Some(Err([QueryUnsatisfied |->
                              gen.drained[CHOOSE k \in u : \A j \in u : k <= j]]))

\* C14: one pass applies a Contract's output rule once to each matched output:
\* the rule adding 1 turns the data 5 of the matching output into 6, and
\* leaves the output itself as it was.
OutputRuleAppliedOnce ==
    (gen.pc = "done" /\ ~gen.own) =>
        /\ middleware = <<MwContract>> =>
               /\ gen.tx.tx.outputs = TxFive.outputs
               /\ gen.tx.tx.outputs_data = <<<<6>>>>
        /\ middleware = <<MwPush, MwContract>> =>
               gen.tx.tx.outputs_data = <<<<6>>, <<6>>>>
        /\ middleware = <<MwContract, MwPush>> =>
               gen.tx.tx.outputs_data = <<<<6>>, <<5>>>>

\* C14 witness: the pass with the one Contract has run on the output holding 5.
ContractPassDone ==
    /\ gen.pc = "done"
    /\ ~gen.own
    /\ middleware = <<MwContract>>
    /\ Len(calls) = 2
    /\ calls[2].tx_in.tx.outputs_data = <<<<5>>>>
    /\ gen.tx.tx.outputs_data = <<<<6>>>>

\* the scripts of a transaction: lock and type of every stored input cell and
\* of every output
ScriptsOf(c, tx) ==
    UNION {{c.cells[tx.inputs[i]][1].lock} \cup Range(c.cells[tx.inputs[i]][1].type_) :
              i \in {j \in 1..Len(tx.inputs) : HasKey(c.cells, tx.inputs[j])}}
    \cup UNION {{tx.outputs[i].lock} \cup Range(tx.outputs[i].type_) : i \in 1..Len(tx.outputs)}

\* a script addressed by content hash whose code some cell deploys
IsDeployedDataScript(c, script) ==
    /\ script.hash_type \in {"Data", "Data1"}
    /\ IsSome(get_cell_by_data_hash(c, script.code_hash))

\* C15: the transaction a pass returns carries, for each content-hash-addressed
\* script of its inputs or outputs, exactly one code dependency on the cell
\* deploying that code; the pass with one Contract bound to D1 returns exactly
\* one dependency, on D1.
GeneratedTxDepsComplete ==
    gen.pc = "done" =>
        /\ \A script \in ScriptsOf(chain, gen.tx.tx) :
               IsDeployedDataScript(chain, script) =>
                   Cardinality({i \in 1..Len(gen.tx.tx.cell_deps) :
                                   gen.tx.tx.cell_deps[i]
                                       = find_cell_dep_for_script(chain, script).val}) = 1
        /\ (middleware = <<MwContract>> /\ ~gen.own
              /\ IsSome(get_cell_by_data_hash(chain, DataHash(D1)))) =>
               gen.tx.tx.cell_deps =
                   <<CodeDep(Unwrap(get_cell_by_data_hash(chain, DataHash(D1))))>>

(***************************************************************************)
(* Properties of dependency completion.                                    *)
(***************************************************************************)
\* the scripts complete_tx is to cover: lock and type of every stored input
\* cell and the type of every output
CompletedScriptsOf(c, tx) ==
    UNION {{c.cells[tx.inputs[i]][1].lock} \cup Range(c.cells[tx.inputs[i]][1].type_) :
              i \in {j \in 1..Len(tx.inputs) : HasKey(c.cells, tx.inputs[j])}}
    \cup UNION {Range(tx.outputs[i].type_) : i \in 1..Len(tx.outputs)}

\* C16: after complete_tx every content-hash-addressed script of an input cell
\* and every such type script of an output has the cell get_cell_by_data_hash
\* returns for its code hash among the cell dependencies, as a code dependency.
CompleteTxAddsCodeDeps ==
    last.op = "complete_tx" =>
        \A script \in CompletedScriptsOf(chain, last.args[1]) :
            IsDeployedDataScript(chain, script) =>
                find_cell_dep_for_script(chain, script).val \in Range(last.ret.val.cell_deps)

\* a list without its repetitions, every element staying where it first stood
RECURSIVE FirstSeen(_)
FirstSeen(xs) ==
    IF xs = <<>> THEN <<>>
    ELSE <<Head(xs)>> \o FirstSeen(SelectSeq(Tail(xs), LAMBDA y : y # Head(xs)))

\* C17: the dependency list complete_tx returns holds every dependency of the
\* transaction it was given, none twice, in first-seen order.
CompleteTxKeepsDepsFirstSeen ==
    last.op = "complete_tx" =>
        LET given == last.args[1].cell_deps
            deps == last.ret.val.cell_deps
        IN  /\ Range(given) \subseteq Range(deps)
            /\ \A i, j \in 1..Len(deps) : deps[i] = deps[j] => i = j
            /\ deps = FirstSeen(given)

(***************************************************************************)
(* Properties of Contract::pipe.                                           *)
(***************************************************************************)
\* the positions of the outputs of tx that carry the contract's script hash
MatchedPositions(k, tx) ==
    SelectSeq([i \in 1..Len(tx.outputs) |-> i], LAMBDA i : IsOwnOutput(k, tx.outputs[i]))

\* rn(...r1(d)...) for the Data rules r1..rn in the order given
RECURSIVE RulesOnData(_, _)
RulesOnData(rules, d) ==
    IF rules = <<>> THEN d
    ELSE RulesOnData(Tail(rules), <<RuleFn(Head(rules).f, d[1])>>)

\* C18: Contract::pipe selects exactly the outputs whose type-script or
\* lock-script hash is the contract's script hash and builds each from its own
\* (output, data) pair: the j-th output returned is the j-th matched output
\* with the rules applied to that output's data.
PipeTransformsOwnPairs ==
    (last.op = "Contract::pipe" /\ last.ret.kind = "ok") =>
        LET k == last.args[1]
            tx == last.args[2]
            m == MatchedPositions(k, tx)
        IN  /\ last.ret.val.outputs = [j \in 1..Len(m) |-> tx.outputs[m[j]]]
            /\ last.ret.val.outputs_data =
                   [j \in 1..Len(m) |-> RulesOnData(k.output_rules, tx.outputs_data[m[j]])]

\* C19: Contract::pipe returns as many outputs as it was given and leaves every
\* output carrying neither the contract's lock hash nor its type hash where it
\* was, with the same data.
PipeKeepsForeignOutputs ==
    (last.op = "Contract::pipe" /\ last.ret.kind = "ok") =>
        LET k == last.args[1]
            tx == last.args[2]
        IN  /\ Len(last.ret.val.outputs) = Len(tx.outputs)
            /\ Len(last.ret.val.outputs_data) = Len(tx.outputs_data)
            /\ \A i \in 1..Len(tx.outputs) :
                   ~IsOwnOutput(k, tx.outputs[i]) =>
                       /\ last.ret.val.outputs[i] = tx.outputs[i]
                       /\ last.ret.val.outputs_data[i] = tx.outputs_data[i]

\* C20: with the Data rules r1..rn added in that order, the final data of each
\* matched output is rn(...r1(d)...), d being the data of that output.
RulesFoldInRegistrationOrder ==
    (last.op = "Contract::pipe" /\ last.ret.kind = "ok") =>
        LET k == last.args[1]
            tx == last.args[2]
            m == MatchedPositions(k, tx)
        IN  /\ Len(last.ret.val.outputs_data) = Len(m)
            /\ \A j \in 1..Len(m) :
                   last.ret.val.outputs_data[j]
                       = RulesOnData(k.output_rules, tx.outputs_data[m[j]])

\* the matched outputs of tx whose data is not one byte, the contract's schema
Undecodable(k, tx) ==
    SelectSeq(MatchedPositions(k, tx), LAMBDA i : Len(tx.outputs_data[i]) # 1)

\* C21: a pipe whose rules are keyed by any of the five selectors completes
\* and returns a transaction, the value a rule returns replacing the field it
\* is keyed by: a Capacity rule adding 1 on one matched output of capacity c
\* returns that output with capacity c + 1.
SelectorRulesComplete ==
    (last.op = "Contract::pipe" /\ Undecodable(last.args[1], last.args[2]) = <<>>) =>
        LET k == last.args[1]
            tx == last.args[2]
        IN  /\ \A i \in 1..Len(k.output_rules) : k.output_rules[i].selector \in Selectors
            /\ last.ret.kind = "ok"
            /\ (/\ k.output_rules = <<[selector |-> "Capacity", f |-> "inc"]>>
                /\ tx.outputs = <<OwnLockOutput>>) =>
                   /\ last.ret.val.outputs =
                          <<[OwnLockOutput EXCEPT !.capacity = RuleFn("inc", @)]>>
                   /\ last.ret.val.outputs_data = tx.outputs_data

\* C22: when the data of a matched output does not decode into the contract's
\* data schema the pipe fails with a schema decode error returned to the
\* caller, and returns no transaction.
SchemaDecodeErrorSurfaced ==
    (last.op = "Contract::pipe" /\ Undecodable(last.args[1], last.args[2]) # <<>>) =>
        LET k == last.args[1]
            tx == last.args[2]
        IN  last.ret = Err([SchemaDecodeError |-> tx.outputs_data[Undecodable(k, tx)[1]]])

\* the resolved cells of a resolved transaction, inputs then dependencies
ResolvedCells(rtx) == rtx.resolved_inputs \o rtx.resolved_cell_deps

\* C34: build_resolved_tx attaches location metadata to a resolved input or
\* dependency cell exactly when link_cell_with_block has recorded one for its
\* reference, and the record carries the number, epoch and hash of the linked
\* block and the transaction index given, those of the most recent link: a
\* successful link sets the record of its reference to these values and changes
\* no other record, no other call changes a record, and every resolved cell
\* carries the record of its reference, or none when there is none.
ResolvedCarriesLatestLink ==
    [][/\ (last'.op = "link_cell_with_block" /\ ops' = ops + 1
               /\ last'.ret.kind = "ok") =>
              LET outp == last'.args[1]
                  hash == last'.args[2]
              IN  /\ HasKey(chain.headers, hash)
                  /\ DOMAIN chain'.outpoint_txs = DOMAIN chain.outpoint_txs \cup {outp}
                  /\ chain'.outpoint_txs[outp] =
                         [block_number |-> chain.headers[hash].number,
                          block_epoch |-> chain.headers[hash].epoch,
                          block_hash |-> hash,
                          index |-> last'.args[3]]
                  /\ \A r \in DOMAIN chain.outpoint_txs \ {outp} :
                         chain'.outpoint_txs[r] = chain.outpoint_txs[r]
       /\ ~(last'.op = "link_cell_with_block" /\ ops' = ops + 1
                /\ last'.ret.kind = "ok") =>
              chain'.outpoint_txs = chain.outpoint_txs
       /\ (last'.op = "build_resolved_tx" /\ last'.ret.kind = "ok") =>
              \A cell \in Range(ResolvedCells(last'.ret.val)) :
                  /\ IsSome(cell.transaction_info)
                         <=> HasKey(chain'.outpoint_txs, cell.out_point)
                  /\ IsSome(cell.transaction_info) =>
                         Unwrap(cell.transaction_info)
                             = chain'.outpoint_txs[cell.out_point]]_vars

\* C34 witness: a transaction has been resolved with one cell that carries the
\* location of a link with transaction index 1 and one cell that carries none.
ResolvedLinkedAndUnlinked ==
    /\ last.op = "build_resolved_tx"
    /\ last.ret.kind = "ok"
    /\ \E cell \in Range(ResolvedCells(last.ret.val)) :
           /\ IsSome(cell.transaction_info)
           /\ Unwrap(cell.transaction_info).index = 1
           /\ Unwrap(cell.transaction_info).block_number = 1
    /\ \E cell \in Range(ResolvedCells(last.ret.val)) : cell.transaction_info = None

\* the queries the register gained between the entry of the pass and its drain
Contributed == SubSeq(gen'.drained, Len(gen'.before) + 1, Len(gen'.drained))

\* C35: every CellQuery the input rules of a Contract produce in a generation
\* pass is pushed to the registry before the drain of that pass, and nothing is
\* appended to the registry after the drain: the fold leaves the registry as it
\* is, and a query of an input rule of a contract in the pipeline is among those
\* the drain read.
InputRuleQueriesBeforeDrain ==
    [][/\ gen.pc = "fold" =>
              (query_queue' = query_queue /\ query_register' = query_register)
       /\ (gen.pc = "fold" /\ gen'.pc = "done") =>
              \A i \in 1..Len(middleware) :
                  middleware[i].rule = "contract" =>
                      \A q \in Range(middleware[i].contract.input_rules) :
                          q \in Range(Contributed)]_vars

\* the sum of the result limits of the queries of a register
RECURSIVE SumLimits(_)
SumLimits(register) ==
    IF register = <<>> THEN 0 ELSE Head(register)._limit + SumLimits(Tail(register))

\* C36: a query with result limit n yields at most n references, the first n
\* of the index, so a pass adds at most n inputs for each query it drained,
\* also when the index lists more than n matching cells.
QueryRespectsLimit ==
    /\ \A q \in {QLock, QType} :
           (query(chain, q).kind = "ok" /\ IsSome(query(chain, q).val)) =>
               Len(Unwrap(query(chain, q).val)) <= q._limit
    /\ gen.pc \in {"fold", "done"} =>
           Len(gen.tx.inputs) <= SumLimits(gen.drained)

\* C39: in the CellMetaTransaction the drain step of the Generator produces,
\* the list of resolved inputs is as long as the list of inputs of the
\* transaction and the i-th resolved input has the reference of the i-th input;
\* this holds through the fold and in the transaction generate() returns, no
\* middleware of the model changing the inputs.
ResolvedInputsMatchTxInputs ==
    gen.pc \in {"fold", "done"} =>
        /\ Len(gen.tx.inputs) = Len(gen.tx.tx.inputs)
        /\ \A i \in 1..Len(gen.tx.inputs) :
               gen.tx.inputs[i].out_point = gen.tx.tx.inputs[i]
        /\ (gen.pc = "done" /\ IsSome(gen.ret) /\ Unwrap(gen.ret).kind = "ok") =>
               LET tx == Unwrap(gen.ret).val IN
               /\ Len(tx.inputs) = Len(tx.tx.inputs)
               /\ \A i \in 1..Len(tx.inputs) : tx.inputs[i].out_point = tx.tx.inputs[i]

\* C39 witness: generate() has returned a transaction of two inputs, after a
\* drain that found them and a fold over a middleware.
GeneratedWithTwoInputs ==
    /\ gen.pc = "done"
    /\ gen.own
    /\ Len(middleware) > 0
    /\ IsSome(gen.ret)
    /\ Unwrap(gen.ret).kind = "ok"
    /\ Len(Unwrap(gen.ret).val.inputs) = 2
    /\ Len(Unwrap(gen.ret).val.tx.inputs) = 2

(***************************************************************************)
(* Properties of receive_tx.                                               *)
(***************************************************************************)
\* C27: when receive_tx has accepted a transaction of n outputs, the store maps
\* (hash of the transaction, i) to (output i, data i) for every i < n, and the
\* call returned the hash of the transaction.
AcceptedOutputsStored ==
    (last.op = "receive_tx" /\ last.ret.kind = "ok") =>
        LET tx == last.args[1] IN
        /\ last.ret.val = TxHash(tx)
        /\ \A i \in 0..(Len(tx.outputs) - 1) :
               /\ HasKey(chain.cells, OutPoint(TxHash(tx), i))
               /\ chain.cells[OutPoint(TxHash(tx), i)]
                      = <<tx.outputs[i + 1], tx.outputs_data[i + 1]>>

\* C27 witness: a transaction of two outputs has been accepted and both of its
\* outputs are stored.
TwoOutputsAccepted ==
    /\ last.op = "receive_tx"
    /\ last.ret = Ok(TxHash(TxOut2))
    /\ HasKey(chain.cells, OutPoint(TxHash(TxOut2), 0))
    /\ HasKey(chain.cells, OutPoint(TxHash(TxOut2), 1))

\* r is listed by index wherever it was listed by index before
StillListed(before, after, r) ==
    \A h \in DOMAIN before :
        r \in Range(before[h]) => (HasKey(after, h) /\ r \in Range(after[h]))

\* C28: accepting a transaction removes and changes none of the cells it spends:
\* each input still maps to the same cell, is still listed by the indices that
\* listed it, and resolves the same way for this and for any other transaction
\* spending it.
AcceptKeepsInputs ==
    [][(last'.op = "receive_tx" /\ ops' = ops + 1 /\ last'.ret.kind = "ok") =>
        LET tx == last'.args[1] IN
        /\ \A r \in Range(tx.inputs) :
               /\ HasKey(chain'.cells, r)
               /\ chain'.cells[r] = chain.cells[r]
               /\ StillListed(chain.cells_by_lock_hash, chain'.cells_by_lock_hash, r)
               /\ StillListed(chain.cells_by_type_hash, chain'.cells_by_type_hash, r)
               /\ \A h \in DOMAIN chain.cells_by_data_hash :
                      chain.cells_by_data_hash[h] = r =>
                          get_cell_by_data_hash(chain', h) = Some(r)
        /\ \A other \in ReceiveTxs :
               (Range(other.inputs) \cap Range(tx.inputs) # {}
                    /\ build_resolved_tx(chain, other).kind = "ok") =>
                   /\ build_resolved_tx(chain', other).kind = "ok"
                   /\ build_resolved_tx(chain', other).val.resolved_inputs
                          = build_resolved_tx(chain, other).val.resolved_inputs]_vars

\* C29: when verification of the transaction fails, receive_tx returns the
\* verification error and leaves the store and every index unchanged.
RejectedReturnsVerifyError ==
    [][(last'.op = "receive_tx" /\ ops' = ops + 1
            /\ verify_tx(chain, last'.args[1], last'.args[2]).kind = "err") =>
        /\ last'.ret = verify_tx(chain, last'.args[1], last'.args[2])
        /\ StoreOf(chain') = StoreOf(chain)]_vars

\* no element of the list occurs at two positions
NoRepeat(list) ==
    \A i, j \in 1..Len(list) : list[i] = list[j] => i = j

\* C37: no reference occurs more than once in a lock-hash list or a type-hash
\* list, also after create_cell_with_outpoint is called with a reference that
\* is already stored or receive_tx accepts the same transaction twice.
NoReferenceListedTwice ==
    /\ \A h \in DOMAIN chain.cells_by_lock_hash : NoRepeat(chain.cells_by_lock_hash[h])
    /\ \A h \in DOMAIN chain.cells_by_type_hash : NoRepeat(chain.cells_by_type_hash[h])

(***************************************************************************)
(* Properties of scripts and of the genesis event.                         *)
(***************************************************************************)
\* C25: build_script_with_hash_type(outp, t, args) returns None exactly when
\* outp is no key of the store; otherwise a Script whose code hash is the hash
\* of the data stored at outp, with hash type t and the args given.
BuildScriptFromStoredData ==
    last.op = "build_script_with_hash_type" =>
        LET outp == last.args[1]
            typ == last.args[2]
            args == last.args[3]
        IN  /\ last.ret.kind = "ok"
            /\ (last.ret.val = None) <=> ~HasKey(chain.cells, outp)
            /\ HasKey(chain.cells, outp) =>
                   /\ IsSome(last.ret.val)
                   /\ Unwrap(last.ret.val).code_hash = DataHash(chain.cells[outp][2])
                   /\ Unwrap(last.ret.val).hash_type = typ
                   /\ Unwrap(last.ret.val).args = args

\* C25 witness: a script of hash type Data with args was built on a stored
\* cell, and None was the answer for a reference the store lacks.
BuiltDataScriptOnStoredCell ==
    /\ last.op = "build_script_with_hash_type"
    /\ last.args[2] = "Data"
    /\ last.args[3] # <<>>
    /\ HasKey(chain.cells, last.args[1])
    /\ IsSome(last.ret.val)
    /\ build_script_with_hash_type(chain, ExtOut, "Data", <<>>) = None

\* C26: asking for a type-addressed script fails with
\* UnsupportedScriptAddressing: build_script_with_hash_type with hash type
\* Type, and find_cell_dep_for_script on a script of hash type Type.
TypeAddressingRejected ==
    /\ (last.op = "build_script_with_hash_type" /\ last.args[2] = "Type") =>
           last.ret = Err("UnsupportedScriptAddressing")
    /\ (last.op = "find_cell_dep_for_script" /\ last.args[1].hash_type = "Type") =>
           last.ret = Err("UnsupportedScriptAddressing")

\* the system scripts the data-hash index of c does not hold yet
GenesisMissing(c) ==
    {name \in DOMAIN GenesisScripts :
        ~HasKey(c.cells_by_data_hash, DataHash(GenesisScripts[name]))}

\* C30: genesis_event deploys every named system script once: the mapping it
\* returns gives, for each name, the reference get_cell_by_data_hash holds for
\* the hash of that script, one cell is added per script not yet deployed, and a
\* second run returns the same mapping and adds no cell.
GenesisEventIdempotent ==
    [][(last'.op = "genesis_event" /\ ops' = ops + 1) =>
        /\ last'.ret.kind = "ok"
        /\ DOMAIN last'.ret.val = DOMAIN GenesisScripts
        /\ \A name \in DOMAIN GenesisScripts :
               /\ get_cell_by_data_hash(chain', DataHash(GenesisScripts[name]))
                      = Some(last'.ret.val[name])
               /\ HasKey(chain'.cells, last'.ret.val[name])
               /\ chain'.cells[last'.ret.val[name]][2] = GenesisScripts[name]
        /\ DOMAIN chain'.cells =
               DOMAIN chain.cells \cup {last'.ret.val[name] : name \in GenesisMissing(chain)}
        /\ Cardinality(DOMAIN chain'.cells) =
               Cardinality(DOMAIN chain.cells) + Cardinality(GenesisMissing(chain))
        /\ \A r \in DOMAIN chain.cells : chain'.cells[r] = chain.cells[r]
        /\ last'.nth = 2 => (last'.ret = last.ret /\ StoreOf(chain') = StoreOf(chain))]_vars

\* C30 witness: genesis_event has just run a second time in a row, and the four
\* system scripts are deployed.
GenesisEventTwice ==
    /\ last.op = "genesis_event"
    /\ last.nth = 2
    /\ GenesisMissing(chain) = {}
    /\ \A name \in DOMAIN GenesisScripts : HasKey(chain.cells, last.ret.val[name])

\* C31: genesis_event run on a clone of the chain MockChain::default() builds
\* leaves the clone equal to the original under the equality of MockChain.
GenesisEventLeavesDefaultEqual ==
    [][(last'.op = "genesis_event" /\ ops' = ops + 1 /\ chain = DefaultChain) =>
        eq(chain, chain') = Ok(TRUE)]_vars

\* the cell the store holds for the data hash of blob
CellByDataHash(c, blob) ==
    Unwrap(get_cell(c, Unwrap(get_cell_by_data_hash(c, DataHash(blob)))))

\* C32: the block genesis_block_from_chain builds after genesis_event has one
\* transaction whose outputs are secp256k1_data, sighash_all, dao, a filler
\* cell under the default lock and multisig_all, in this order; the cells the
\* store gives by data hash for sighash_all, dao and multisig_all are the
\* outputs 1, 2 and 4.
GenesisBlockOutputsInOrder ==
    /\ (last.op = "genesis_block_from_chain" /\ last.ret.kind = "ok") =>
           LET block == last.ret.val
               tx == block.transactions[1]
           IN  /\ Len(block.transactions) = 1
               /\ Len(tx.outputs) = 5
               /\ Len(tx.outputs_data) = 5
               /\ tx.outputs_data[1] = SECP256K1_DATA
               /\ tx.outputs_data[2] = SECP256K1_BLAKE160_SIGHASH_ALL
               /\ tx.outputs_data[3] = DAO
               /\ tx.outputs_data[4] = <<>>
               /\ tx.outputs[4].lock = Unwrap(build_script(chain, Unwrap(chain.default_lock), <<>>))
               /\ tx.outputs[4].type_ = None
               /\ tx.outputs_data[5] = SECP256K1_BLAKE160_MULTISIG_ALL
               /\ CellByDataHash(chain, SECP256K1_BLAKE160_SIGHASH_ALL)[1] = tx.outputs[2]
               /\ CellByDataHash(chain, DAO)[1] = tx.outputs[3]
               /\ CellByDataHash(chain, SECP256K1_BLAKE160_MULTISIG_ALL)[1] = tx.outputs[5]
    /\ (last.op = "genesis_block_from_chain" /\ last.ret.kind # "ok") =>
           \E name \in DOMAIN GenesisScripts :
               ~HasKey(chain.cells_by_data_hash, DataHash(GenesisScripts[name]))

\* C32 witness: the genesis block has been built on a chain where genesis_event
\* had deployed the system scripts.
GenesisBlockBuilt ==
    /\ last.op = "genesis_block_from_chain"
    /\ last.ret.kind = "ok"
    /\ GenesisMissing(chain) = {}
    /\ Len(last.ret.val.transactions[1].outputs) = 5

\* the operations that take the chain by shared reference
LookupOps ==
    {"get_cell", "get_cell_by_data_hash", "get_cells_by_lock_hash",
     "get_cells_by_type_hash", "build_script", "build_script_with_hash_type",
     "find_cell_dep_for_script", "build_resolved_tx"}

\* C33: a lookup leaves the store and every index as they were, whether it hits
\* or misses: get_cell, get_cell_by_data_hash, get_cells_by_lock_hash,
\* get_cells_by_type_hash, build_script, find_cell_dep_for_script and
\* build_resolved_tx.
LookupsLeaveStore ==
    [][last'.op \in LookupOps =>
        /\ StoreOf(chain') = StoreOf(chain)
        /\ chain' = chain
        /\ ops' = ops]_vars

\* C33 witness: a type-hash lookup has hit on a store that calls have filled,
\* where a lookup of another hash misses.
LookupHitAndMiss ==
    /\ last.op = "get_cells_by_type_hash"
    /\ IsSome(last.ret.val)
    /\ Unwrap(last.ret.val) # <<>>
    /\ get_cells_by_lock_hash(chain, ScriptHash(LockA)) = None
    /\ get_cell(chain, ExtOut) = None
    /\ build_resolved_tx(chain, MkTx(<<R(1)>>, <<>>, <<>>, <<>>)).kind = "ok"
    /\ ops > 0

(***************************************************************************)
(* Properties of the Script value.                                         *)
(***************************************************************************)
\* C38: for every Script built by Default, From<JsonScript> or
\* From<PackedScript> and changed by any number of set_args calls, the stored
\* script_hash is the hash of the current (code_hash, hash_type, args):
\* validate returns Ok and never MismatchedScriptHash.
StoredScriptHashCurrent ==
    /\ scr.script_hash = ScriptHash(MkScript(scr.code_hash, scr.hash_type, scr.args))
    /\ Script_validate(scr).kind = "ok"
    /\ last.op = "validate" => last.ret.kind = "ok"

(***************************************************************************)
(* Properties of the provider.                                             *)
(***************************************************************************)
\* C40: the provider inner() returns works on a copy of the chain: send_tx and
\* verify_tx issued through it never change the cells or the indices of the
\* MockChain it was obtained from.
ProviderLeavesOrigin ==
    [][last'.op \in {"send_tx", "verify_tx"} =>
        /\ StoreOf(chain') = StoreOf(chain)
        /\ chain' = chain]_vars

\* C40 witness: send_tx through the provider has accepted a transaction, whose
\* output the provider's chain stores and the MockChain it came from does not.
SentThroughProvider ==
    /\ last.op = "send_tx"
    /\ last.ret.kind = "ok"
    /\ IsSome(last.ret.val)
    /\ IsSome(provider)
    /\ HasKey(Unwrap(provider).chain.cells, OutPoint(Unwrap(last.ret.val), 0))
    /\ ~HasKey(chain.cells, OutPoint(Unwrap(last.ret.val), 0))

====
